---------------------------- MODULE Spec2Model ----------------------------
(***************************************************************************)
(* State-machine model of the snes-emu core: the 65C816 interpreter of     *)
(* cpu.rs (step, do_step, the bus read/write functions, the H/V timer,     *)
(* general-purpose DMA and interrupt dispatch) together with the parts of  *)
(* the PPU, WRAM and DMA register files that these functions touch, the    *)
(* PPU's VRAM and CGRAM ports and its prepass over the objects of a line   *)
(* (ppu.rs), and the APU's mailbox (apu.rs).                               *)
(*                                                                         *)
(* The whole machine (`emu: &mut Snes`) is one record `emu`; every Rust    *)
(* function `f(emu, args)` is an operator f(e, args) that returns the      *)
(* machine after the call.  A value the function returns is left in the    *)
(* field v of the machine it returns, a StepResult in the field res; a     *)
(* local that must survive a later call is saved in the field t.  The      *)
(* statements of a function are the nested applications of its operators,  *)
(* innermost first.  A Rust panic (panic!, todo!, a failed assert, an      *)
(* arithmetic overflow) is recorded in emu.gh.panic; once it is set, every *)
(* later bus access of the same call is skipped and the step aborts.       *)
(*                                                                         *)
(* The cartridge ROM is an input: the instruction the CPU fetches in a     *)
(* step is chosen by the action that performs the step, among the          *)
(* instructions of the program the machine runs (emu.host.program).        *)
(*                                                                         *)
(* Specifications: Spec (from power-on, flag, stack, transfer and block    *)
(* move instructions), SpecInt (the six interrupt lines), SpecDma          *)
(* (general-purpose DMA), SpecTimer (the raster around the end-of-frame    *)
(* dot and the start of vertical blanking), SpecRun (the run loop),        *)
(* SpecIrq (the H/V-count IRQ), SpecMap (the cartridge mapping modes),     *)
(* SpecApu (the APU mailbox), SpecPpu (the VRAM and CGRAM ports),          *)
(* SpecObj (the objects of a line), SpecFn (the functions of their         *)
(* arguments alone), SpecJoy (joypad auto-read), SpecAdc (decimal ADC),    *)
(* SpecSync (the counters of timer and PPU), SpecCatch (the APU's          *)
(* catch-up), SpecWait (WAI and STP), SpecEntry (interrupt entry and RTI), *)
(* SpecStack (the stack), SpecUnit (the DMA transfer units), SpecFlag (the *)
(* V-blank NMI flag) and SpecBreak (breakpoints).                          *)
(***************************************************************************)
EXTENDS Integers, Sequences, FiniteSets, TLC

VARIABLES emu, result, run_state

vars == <<emu, result, run_state>>

---------------------------------------------------------------------------
(* Bounds of the model.                                                    *)

\* no step starts once the master cycle counter has reached this value
MaxCycles == 73

---------------------------------------------------------------------------
(* Bit helpers and Register16 (cpu.rs 7-39).                               *)

bit(n, k) == (n \div (2 ^ k)) % 2 = 1

b2n(b) == IF b THEN 1 ELSE 0

\* n with bit k forced to 1 / to 0 / toggled
set_bit(n, k) == IF bit(n, k) THEN n ELSE n + 2 ^ k

clear_bit(n, k) == IF bit(n, k) THEN n - 2 ^ k ELSE n

toggle_bit(n, k) == IF bit(n, k) THEN n - 2 ^ k ELSE n + 2 ^ k

\* u8::trailing_zeros
trailing_zeros(n) == IF n % 256 = 0 THEN 8 ELSE CHOOSE k \in 0..7 : bit(n, k) /\ \A j \in 0..(k - 1) : ~bit(n, j)

\* bitwise and / or of two bytes
and8(a, b) == LET w(k) == IF bit(a, k) /\ bit(b, k) THEN 2 ^ k ELSE 0 IN w(0) + w(1) + w(2) + w(3) + w(4) + w(5) + w(6) + w(7)

or8(a, b) == LET w(k) == IF bit(a, k) \/ bit(b, k) THEN 2 ^ k ELSE 0 IN w(0) + w(1) + w(2) + w(3) + w(4) + w(5) + w(6) + w(7)

\* a | b of two u16
or16(a, b) == or8(a % 256, b % 256) + 256 * or8((a \div 256) % 256, (b \div 256) % 256)

\* `(addr >> 16) as u8`
bank_of(addr) == (addr \div 65536) % 256

getl(r) == r % 256

geth(r) == (r \div 256) % 256

setl(r, value) == (r \div 256) * 256 + (value % 256)

seth(r, value) == (value % 256) * 256 + (r % 256)

---------------------------------------------------------------------------
(* Flags (cpu.rs 63-124).                                                  *)

Flags_default == [c |-> FALSE, z |-> FALSE, i |-> FALSE, d |-> FALSE, xb |-> TRUE, m |-> TRUE, v |-> FALSE, n |-> FALSE, e |-> TRUE]

set_from_bits(p, bits) == [p EXCEPT !.c = bit(bits, 0), !.z = bit(bits, 1), !.i = bit(bits, 2), !.d = bit(bits, 3), !.xb = bit(bits, 4), !.m = bit(bits, 5), !.v = bit(bits, 6), !.n = bit(bits, 7)]

\* to_bits with the M and XB bits exchanged
to_bits_exchanged(p) == b2n(p.c) + 2 * b2n(p.z) + 4 * b2n(p.i) + 8 * b2n(p.d) + 16 * b2n(p.m) + 32 * b2n(p.xb) + 64 * b2n(p.v) + 128 * b2n(p.n)

to_bits(p) == b2n(p.c) + 2 * b2n(p.z) + 4 * b2n(p.i) + 8 * b2n(p.d) + 16 * b2n(p.xb) + 32 * b2n(p.m) + 64 * b2n(p.v) + 128 * b2n(p.n)

---------------------------------------------------------------------------
(* Interrupt numbers (cpu.rs 254-270): the discriminants of enum Interrupt,*)
(* which are also the bit positions in pending_interrupts.                 *)

INT_RESET == 0

INT_NMI == 1

INT_ABORT == 2

INT_IRQ == 3

INT_COP == 4

INT_BREAK == 5

Interrupts == {INT_RESET, INT_NMI, INT_ABORT, INT_IRQ, INT_COP, INT_BREAK}

---------------------------------------------------------------------------
(* Construction.                                                            *)

\* an input port (joypad.rs 3-7, Option<Box<dyn InputDevice>>): a Joypad
\* (input.rs 20-34) with the buttons its updater reports and its shift
\* register, or nothing attached; `strobes` and `data1` record the calls of
\* strobe and the bits read_data1 returned
NoInput == [attached |-> FALSE, state |-> {}, buffer |-> 0, strobes |-> 0, data1 |-> <<>>]

JoypadIo_default == [joywr |-> 0, input1 |-> NoInput, input2 |-> NoInput]

\* Cpu::new (cpu.rs 361-410); nmitimen_hv_irq is the discriminant of HvIrq
\* (0 Disable, 1 Horizontal, 2 Vertical, 3 End); the multiplier/divider and
\* WRIO pins are not part of the model
Cpu_new(mapping_mode) ==
    [ nmitimen_vblank_nmi_enable |-> FALSE,
      nmitimen_hv_irq |-> 0,
      nmitimen_joypad_enable |-> FALSE,
      hvbjoy_auto_joypad_read_busy_flag |-> FALSE,
      joy1l |-> 0, joy1h |-> 0, joy2l |-> 0, joy2h |-> 0,
      joy3l |-> 0, joy3h |-> 0, joy4l |-> 0, joy4h |-> 0,
      htime |-> 511,
      vtime |-> 511,
      mdmaen |-> 0,
      rdnmi_vblank_nmi_flag |-> TRUE,
      hv_irq_cond |-> FALSE,
      hvbjoy_vblank_period_flag |-> FALSE,
      hvbjoy_hblank_period_flag |-> FALSE,
      regs |-> [a |-> 0, dbr |-> 0, d |-> 0, k |-> 0, pc |-> 0, p |-> Flags_default, s |-> 0, x |-> 0, y |-> 0],
      pending_interrupts |-> 0,
      dma_counter |-> 0,
      stopped |-> FALSE,
      waiting |-> FALSE,
      h_counter |-> 0,
      v_counter |-> 0,
      hv_counter_cycles |-> 0,
      cycles |-> 0,
      mapping_mode |-> mapping_mode,
      mdr |-> 0,
      breakpoints |-> {} ]

\* DMAP::default and DmaChannel::default (dma.rs 37-43, 128-142)
DmaChannel_default ==
    [ transfer_direction |-> "AToB",
      addressing_mode |-> "DirectTable",
      a_bus_address_step |-> "Increment",
      transfer_unit_select |-> 0,
      bbad |-> 255,
      a1t |-> 65535,
      a1b |-> 255,
      das |-> 65535 ]

\* a zero-filled memory (vec![0; n]) holds only its non-zero bytes
mem_get(data, a) == IF a \in DOMAIN data THEN data[a] ELSE 0

mem_set(data, a, value) == [x \in (DOMAIN data \ {a}) \cup (IF value = 0 THEN {} ELSE {a}) |-> IF x = a THEN value ELSE data[x]]

\* the APU's mailbox, control bit, RAM and reset state (apu.rs 34-53);
\* cpuio_in[i] and cpuio_out[i] of the code are cpuio_in[i + 1] and
\* cpuio_out[i + 1] here
Apu_default == [cpuio_in |-> <<0, 0, 0, 0>>, cpuio_out |-> <<0, 0, 0, 0>>, rom_enable |-> TRUE, ram |-> [a \in {} |-> 0], reset |-> FALSE, pc |-> 0, cycles |-> 0, stopped |-> FALSE]

\* the PPU fields read by the CPU core (ppu.rs 307-310, 338-340, 376-405)
\* and the VRAM and CGRAM ports (359-364, 375, 394-395); OBSEL, STAT77, OAM
\* and the tiles of the line's objects (353-355, 388, 391, 400-401):
\* obsel_size_selection is the number of the size selection (bits 5-7 of
\* OBSEL), current_object_tiles the first current_object_tiles_len entries
\* of the array
Ppu_default ==
    [ setini_interlace |-> FALSE, setini_overscan |-> FALSE, setini_hpseudo512 |-> FALSE, cycles |-> 0, hpos |-> 0, vpos |-> 0,
      vmain_increment_mode |-> "Low", vmain_address_translation |-> "Bit10", vmain_address_increment_step |-> 128,
      vmadd |-> 0, vmdatal |-> 0, vmdatah |-> 0, vram |-> [a \in {} |-> 0],
      cgadd |-> 0, cgram |-> [a \in {} |-> 0], cgram_selector |-> 0,
      obsel_size_selection |-> 0, obsel_gap |-> 0, obsel_base_address |-> 0, stat77 |-> 0,
      oam |-> [a \in 0..543 |-> 0], current_object_tiles |-> <<>>, current_object_tiles_len |-> 0 ]

\* the bookkeeping of one step: the abort reason, the interrupts whose
\* handler process_interrupt entered, the opcode fetched (-1: none) with
\* the address it was fetched from and the registers at that moment, the
\* dots the H/V timer moved through, the master cycle counter before and
\* after each bus access with the timer's cycle count after it, the
\* bytes moved by DMA, whether the timer reached the end-of-frame dot, the V
\* transitions into vertical blanking, the mailbox access made, the line whose objects
\* were prepared with the objects kept, the function applied to a drawn
\* input with its input and output, whether an
\* access resolved to no
\* device, whether the step found XB = 0 and a non-zero high byte in X, and
\* whether the step found the CPU waiting with an interrupt pending, and the
\* registers before the handler whose first instruction the step executes
NoGhost == [panic |-> "none", dispatched |-> <<>>, opcode |-> -1, fetch |-> <<>>, dma_bytes |-> <<>>, frame_point |-> FALSE, vedge |-> <<>>, dots |-> <<>>, bus |-> <<>>, mail |-> <<>>, prepass |-> <<>>, applied |-> <<>>, open_bus |-> FALSE, index_wide |-> FALSE, woken |-> FALSE, entry |-> <<>>]

\* bookkeeping that outlives a step: nmi_owed is set when the timer raises
\* an NMI at a V transition and reset when the NMI handler is entered;
\* fetched is set by the first opcode fetch; entry holds the registers
\* before a handler was entered, until the next opcode fetch; mail holds, for each mailbox
\* port, the value each side wrote last since the APU's reset (-1: none);
\* ports holds the accesses a program made to the PPU's ports
NoHistory == [nmi_owed |-> FALSE, fetched |-> FALSE, entry |-> <<>>, resumed |-> FALSE, ports |-> <<>>, mail |-> [cpu |-> <<-1, -1, -1, -1>>, apu |-> <<-1, -1, -1, -1>>]]

\* what surrounds the machine: the instructions the cartridge's program is
\* made of, the interrupt lines the host raises, and the value of the master
\* cycle counter from which the host makes no further call; vector is the
\* word the cartridge holds at 00:FFFC, the emulation reset vector
NoHost == [program |-> {}, lines |-> {}, deadline |-> 0, vector |-> 32768, ports |-> {}, stores |-> {}, loads |-> {}]

\* Snes::new (lib.rs 240-249): the devices in their power-on state and the
\* reset interrupt raised; rom is the part of the cartridge a step reads
\* (no step in progress: base -1)
Snes_new(mapping_mode) ==
    [ cpu |-> [Cpu_new(mapping_mode) EXCEPT !.pending_interrupts = 2 ^ INT_RESET],
      dma |-> [channels |-> [ch \in 0..7 |-> DmaChannel_default]],
      wram |-> [data |-> [a \in {} |-> 0], wmadd |-> 0],
      ppu |-> Ppu_default,
      rom |-> [ins |-> <<0, 0, 0, 0>>, base |-> -1, dat |-> 0],
      v |-> 0,
      t |-> <<>>,
      res |-> "Stepped",
      build |-> [overflow_checks |-> TRUE],
      apu |-> Apu_default,
      joypad |-> JoypadIo_default,
      hist |-> NoHistory,
      host |-> NoHost,
      gh |-> NoGhost ]

---------------------------------------------------------------------------
(* The bus resolver (cpu.rs 589-653): the device "None" is open bus, the   *)
(* device "Todo" the todo!() of a mapping mode other than LoROM and HiROM. *)

resolve_cartridge_addr(addr, mapping_mode) ==
    LET bank == bank_of(addr)
        offset == addr % 65536
        mapped_addr == (bank % 128) * 32768 + (offset % 32768)
    IN  CASE mapping_mode = "LoRom" ->
               IF offset >= 32768 THEN [device |-> "Rom", addr |-> mapped_addr]
               ELSE IF bank % 128 >= 112 THEN [device |-> "SRam", addr |-> mapped_addr - 3670016]
               ELSE IF bank % 128 >= 64 THEN [device |-> "Rom", addr |-> mapped_addr]
               ELSE [device |-> "None", addr |-> 0]
          [] mapping_mode = "HiRom" ->
               IF bank % 128 >= 64 \/ offset >= 32768 THEN [device |-> "Rom", addr |-> addr % 4194304]
               ELSE IF offset >= 24576 THEN [device |-> "SRam", addr |-> (offset - 24576) + (bank % 16) * 16384]
               ELSE [device |-> "None", addr |-> 0]
          [] OTHER -> [device |-> "Todo", addr |-> 0]

\* the variant that compares the bank before it is masked
resolve_addr_unmasked(addr, mapping_mode) ==
    IF bank_of(addr) >= 126 /\ bank_of(addr) <= 127 THEN [device |-> "WRam", addr |-> addr - 8257536]
    ELSE IF bank_of(addr) < 64 /\ addr % 65536 >= 16896 /\ addr % 65536 <= 16909 THEN [device |-> "CpuIo", addr |-> addr % 65536]
    ELSE resolve_cartridge_addr(addr, mapping_mode)

resolve_addr(addr, mapping_mode) ==
    LET bank == bank_of(addr)
        offset == addr % 65536
    IN  IF bank >= 126 /\ bank <= 127 THEN [device |-> "WRam", addr |-> addr - 8257536]
        ELSE IF bank % 128 < 64 THEN
               CASE offset <= 8191 -> [device |-> "WRam", addr |-> offset]
                 [] offset >= 8192 /\ offset <= 8447 -> [device |-> "None", addr |-> 0]
                 [] offset >= 8448 /\ offset <= 8511 -> [device |-> "Ppu", addr |-> offset]
                 [] offset >= 8512 /\ offset <= 8575 -> [device |-> "Apu", addr |-> 8512 + (offset % 4)]
                 [] offset >= 8576 /\ offset <= 8579 -> [device |-> "WRamAccess", addr |-> offset]
                 [] offset >= 8580 /\ offset <= 16405 -> [device |-> "None", addr |-> 0]
                 [] offset >= 16406 /\ offset <= 16407 -> [device |-> "Joypad", addr |-> offset]
                 [] offset >= 16408 /\ offset <= 16895 -> [device |-> "None", addr |-> 0]
                 [] offset >= 16896 /\ offset <= 16909 -> [device |-> "CpuIo", addr |-> offset]
                 [] offset >= 16910 /\ offset <= 16911 -> [device |-> "None", addr |-> 0]
                 [] offset >= 16912 /\ offset <= 16927 -> [device |-> "CpuIo", addr |-> offset]
                 [] offset >= 16928 /\ offset <= 17151 -> [device |-> "None", addr |-> 0]
                 [] offset >= 17152 /\ offset <= 17279 -> [device |-> "Dma", addr |-> offset]
                 [] offset >= 17280 /\ offset <= 24575 -> [device |-> "None", addr |-> 0]
                 [] OTHER -> resolve_cartridge_addr(addr, mapping_mode)
        ELSE resolve_cartridge_addr(addr, mapping_mode)

---------------------------------------------------------------------------
(* Panics, return values and locals.                                       *)

\* panic!/todo!/assert failure: the first one of a step is kept
Panic(e, why) == IF e.gh.panic = "none" THEN [e EXCEPT !.gh.panic = why, !.v = 0] ELSE [e EXCEPT !.v = 0]

Panicked(e) == e.gh.panic # "none"

\* `return value`
ret(e, value) == [e EXCEPT !.v = value]

\* `let local = <the value just returned>`
keep(e) == [e EXCEPT !.t = Append(@, e.v)]

\* the local saved last, and the machine without it
local(e) == IF Len(e.t) = 0 THEN 0 ELSE e.t[Len(e.t)]

drop(e) == [e EXCEPT !.t = IF Len(@) = 0 THEN @ ELSE SubSeq(@, 1, Len(@) - 1)]

\* hh << 8 | ll, with ll the saved local and hh the value just returned
join16(e) == drop([e EXCEPT !.v = e.v * 256 + local(e)])

---------------------------------------------------------------------------
(* Interrupt lines and the NMI flag (cpu.rs 412-455).                      *)

raise_interrupt(cpu, interrupt) == [cpu EXCEPT !.pending_interrupts = set_bit(@, interrupt)]

set_vblank_nmi_enable(cpu, enable) ==
    [(IF enable /\ ~cpu.nmitimen_vblank_nmi_enable /\ cpu.rdnmi_vblank_nmi_flag THEN raise_interrupt(cpu, INT_NMI) ELSE cpu)
        EXCEPT !.nmitimen_vblank_nmi_enable = enable]

set_vblank_nmi_flag(cpu, nmi) ==
    [(IF nmi /\ ~cpu.rdnmi_vblank_nmi_flag /\ cpu.nmitimen_vblank_nmi_enable THEN raise_interrupt(cpu, INT_NMI) ELSE cpu)
        EXCEPT !.rdnmi_vblank_nmi_flag = nmi]

\* Ppu::output_height (ppu.rs 861-866)
output_height(ppu) == IF ppu.setini_overscan THEN 239 ELSE 224

---------------------------------------------------------------------------
(* PPU catch-up (ppu.rs 1473-1536): the dot counters; rendering writes     *)
(* only the output image, which is not part of the model.                  *)

\* one iteration of the loop (1497-1507)
ppu_dot(ppu, height) ==
    [ppu EXCEPT !.cycles = @ + 4,
                !.hpos = IF @ + 1 > 339 THEN 0 ELSE @ + 1,
                !.vpos = IF ppu.hpos + 1 > 339 THEN (IF @ + 1 > height + 37 THEN 0 ELSE @ + 1) ELSE @]

\* at most `dots` iterations, a power of two, in two halves
RECURSIVE ppu_catch_up_dots(_, _, _, _)
ppu_catch_up_dots(ppu, cpu_cycles, height, dots) ==
    IF ppu.cycles >= cpu_cycles THEN ppu
    ELSE IF dots = 1 THEN ppu_dot(ppu, height)
    ELSE ppu_catch_up_dots(ppu_catch_up_dots(ppu, cpu_cycles, height, dots \div 2), cpu_cycles, height, dots \div 2)

RECURSIVE ppu_catch_up_loop(_, _, _)
ppu_catch_up_loop(ppu, cpu_cycles, height) ==
    IF ppu.cycles >= cpu_cycles THEN ppu
    ELSE ppu_catch_up_loop(ppu_catch_up_dots(ppu, cpu_cycles, height, 4096), cpu_cycles, height)

ppu_catch_up(e) ==
    IF Panicked(e) THEN e
    ELSE IF e.ppu.setini_interlace \/ e.ppu.setini_hpseudo512 THEN Panic(e, "todo: ppu catch_up")
    ELSE [e EXCEPT !.ppu = ppu_catch_up_loop(@, e.cpu.cycles, output_height(e.ppu))]

---------------------------------------------------------------------------
(* The H/V timer (cpu.rs 2368-2432).                                       *)

\* the counters move by one dot (2372-2377)
timer_advance(cpu) ==
    [cpu EXCEPT !.hv_counter_cycles = @ + 4,
                !.h_counter = IF @ + 1 > 339 THEN 0 ELSE @ + 1,
                !.v_counter = IF cpu.h_counter + 1 > 339 THEN @ + 1 ELSE @]

\* the start of a new line (2379-2389), `cpu` being the registers after
\* timer_advance and `wrapped` whether H returned to 0
timer_line(cpu, wrapped, height) ==
    IF ~wrapped THEN cpu
    ELSE [(IF cpu.v_counter = 2 THEN set_vblank_nmi_flag(cpu, FALSE)
           ELSE IF cpu.v_counter = height + 1 THEN set_vblank_nmi_flag(cpu, TRUE)
           ELSE cpu) EXCEPT !.v_counter = IF @ > height + 37 THEN 0 ELSE @]

\* the variant that takes the H-match for the H-and-V-match
hv_irq_condition_both(cpu) == cpu.nmitimen_hv_irq # 0 /\ cpu.h_counter = cpu.htime /\ cpu.v_counter = cpu.vtime

\* the H/V IRQ condition (2400-2409)
hv_irq_condition(cpu) ==
    CASE cpu.nmitimen_hv_irq = 0 -> FALSE
      [] cpu.nmitimen_hv_irq = 1 -> cpu.h_counter = cpu.htime
      [] cpu.nmitimen_hv_irq = 2 -> cpu.v_counter = cpu.vtime /\ cpu.v_counter = 0
      [] cpu.nmitimen_hv_irq = 3 -> cpu.h_counter = cpu.htime /\ cpu.v_counter = cpu.vtime

\* the blanking flags and the IRQ edge (2394-2415)
timer_flags(cpu, height) ==
    [(IF hv_irq_condition(cpu) /\ ~cpu.hv_irq_cond THEN raise_interrupt(cpu, INT_IRQ) ELSE cpu)
        EXCEPT !.hvbjoy_hblank_period_flag = cpu.h_counter < 22 \/ cpu.h_counter > 277,
               !.hvbjoy_vblank_period_flag = cpu.v_counter < 1 \/ cpu.v_counter > height,
               !.hv_irq_cond = hv_irq_condition(cpu)]

\* one iteration of the loop on the machine `e`, `cpu1` being its registers
\* after the iteration: the result turns FrameFinished at the end-of-frame
\* dot (2417-2419); the bookkeeping notes a V transition to height + 1
timer_note(e, cpu1, height) ==
    [e EXCEPT !.cpu = cpu1,
              !.res = IF cpu1.h_counter = 277 /\ cpu1.v_counter = height THEN "FrameFinished" ELSE @,
              !.gh.frame_point = @ \/ (cpu1.h_counter = 277 /\ cpu1.v_counter = height),
              !.gh.vedge = IF e.cpu.h_counter = 339 /\ e.cpu.v_counter = height
                           THEN Append(@, [enable |-> e.cpu.nmitimen_vblank_nmi_enable, flag_before |-> e.cpu.rdnmi_vblank_nmi_flag, flag_after |-> cpu1.rdnmi_vblank_nmi_flag, raised |-> ~bit(e.cpu.pending_interrupts, INT_NMI) /\ bit(cpu1.pending_interrupts, INT_NMI)])
                           ELSE @,
              !.gh.dots = Append(@, [h0 |-> e.cpu.h_counter, v0 |-> e.cpu.v_counter, h |-> cpu1.h_counter, v |-> cpu1.v_counter,
                                     irq0 |-> bit(e.cpu.pending_interrupts, INT_IRQ), irq |-> bit(cpu1.pending_interrupts, INT_IRQ)]),
              !.hist.nmi_owed = @ \/ (e.cpu.h_counter = 339 /\ e.cpu.v_counter = height /\ ~bit(e.cpu.pending_interrupts, INT_NMI) /\ bit(cpu1.pending_interrupts, INT_NMI))]

RECURSIVE run_timer_loop(_, _)
run_timer_loop(e, height) ==
    IF e.cpu.hv_counter_cycles >= e.cpu.cycles THEN e
    ELSE run_timer_loop(timer_note(e, timer_flags(timer_line(timer_advance(e.cpu), e.cpu.h_counter = 339, height), height), height), height)

\* the three assert_eq! of the synchronisation block (2426-2428)
frame_asserts(e) ==
    IF Panicked(e) THEN e
    ELSE IF e.cpu.hv_counter_cycles # e.ppu.cycles THEN Panic(e, "assert: hv_counter_cycles == ppu.cycles")
    ELSE IF e.cpu.h_counter # e.ppu.hpos THEN Panic(e, "assert: h_counter == ppu.hpos")
    ELSE IF e.cpu.v_counter # e.ppu.vpos THEN Panic(e, "assert: v_counter == ppu.vpos")
    ELSE e

\* the synchronisation block (2422-2429); apu::catch_up runs the sound CPU,
\* which is not part of the model
frame_sync(e) == IF e.res = "FrameFinished" THEN frame_asserts(ppu_catch_up(e)) ELSE e

\* the variant that leaves the counters where they are
run_timer_idle(e, res) == [e EXCEPT !.res = res]

\* run_timer(emu, result): the StepResult it returns is left in res
run_timer(e, res) ==
    IF Panicked(e) THEN e ELSE frame_sync(run_timer_loop([e EXCEPT !.res = res], output_height(e.ppu)))

---------------------------------------------------------------------------
(* The devices behind the bus.  A register or memory cell whose content    *)
(* the model does not track (the multiplier, the joypad latches, the APU   *)
(* ports, the PPU's read ports, the cartridge's data and save RAM) reads   *)
(* as rom.dat, a byte chosen by the action that performs the step.         *)

\* Cpu::read (cpu.rs 485-523)
Cpu_read(e, addr) ==
    CASE addr = 16912 -> ret([e EXCEPT !.cpu.rdnmi_vblank_nmi_flag = FALSE], 2 + 128 * b2n(e.cpu.rdnmi_vblank_nmi_flag))
      [] addr = 16913 -> ret([e EXCEPT !.cpu.pending_interrupts = IF ~e.cpu.hv_irq_cond THEN clear_bit(@, INT_IRQ) ELSE @], 128 * b2n(bit(e.cpu.pending_interrupts, INT_IRQ)))
      [] addr = 16914 -> ret([e EXCEPT !.cpu = set_vblank_nmi_flag(@, FALSE)], b2n(e.cpu.hvbjoy_auto_joypad_read_busy_flag) + 64 * b2n(e.cpu.hvbjoy_hblank_period_flag) + 128 * b2n(e.cpu.hvbjoy_vblank_period_flag))
      [] addr >= 16915 /\ addr <= 16919 -> ret(e, e.rom.dat)
      [] addr = 16920 -> ret(e, e.cpu.joy1l)
      [] addr = 16921 -> ret(e, e.cpu.joy1h)
      [] addr = 16922 -> ret(e, e.cpu.joy2l)
      [] addr = 16923 -> ret(e, e.cpu.joy2h)
      [] addr = 16924 -> ret(e, e.cpu.joy3l)
      [] addr = 16925 -> ret(e, e.cpu.joy3h)
      [] addr = 16926 -> ret(e, e.cpu.joy4l)
      [] addr = 16927 -> ret(e, e.cpu.joy4h)
      [] OTHER -> Panic(e, "open bus read (CPUIO)")

\* Cpu::write (cpu.rs 525-578)
Cpu_write(cpu, addr, value) ==
    CASE addr = 16896 ->
           IF (value \div 16) % 4 = 0
           THEN [set_vblank_nmi_enable(cpu, bit(value, 7)) EXCEPT !.nmitimen_hv_irq = 0, !.nmitimen_joypad_enable = bit(value, 0), !.hv_irq_cond = FALSE, !.pending_interrupts = clear_bit(@, INT_IRQ)]
           ELSE [set_vblank_nmi_enable(cpu, bit(value, 7)) EXCEPT !.nmitimen_hv_irq = (value \div 16) % 4, !.nmitimen_joypad_enable = bit(value, 0)]
      [] addr = 16903 -> [cpu EXCEPT !.htime = (@ \div 256) * 256 + value]
      [] addr = 16904 -> [cpu EXCEPT !.htime = (@ % 256) + 256 * (value % 2)]
      [] addr = 16905 -> [cpu EXCEPT !.vtime = (@ \div 256) * 256 + value]
      [] addr = 16906 -> [cpu EXCEPT !.vtime = (@ % 256) + 256 * (value % 2)]
      [] addr = 16907 -> [cpu EXCEPT !.mdmaen = value]
      [] OTHER -> cpu

\* Dma::write (dma.rs 200-219) to register `reg` of a channel, with
\* DMAP::from_bits (dma.rs 46-81) for register 0
Dma_write(channel, reg, value) ==
    CASE reg = 0 -> [channel EXCEPT !.transfer_direction = IF bit(value, 7) THEN "BToA" ELSE "AToB",
                                    !.addressing_mode = IF bit(value, 6) THEN "IndirectTable" ELSE "DirectTable",
                                    !.a_bus_address_step = <<"Increment", "Fixed1", "Decrement", "Fixed2">>[((value \div 8) % 4) + 1],
                                    !.transfer_unit_select = value % 8]
      [] reg = 1 -> [channel EXCEPT !.bbad = value]
      [] reg = 2 -> [channel EXCEPT !.a1t = setl(@, value)]
      [] reg = 3 -> [channel EXCEPT !.a1t = seth(@, value)]
      [] reg = 4 -> [channel EXCEPT !.a1b = value]
      [] reg = 5 -> [channel EXCEPT !.das = setl(@, value)]
      [] reg = 6 -> [channel EXCEPT !.das = seth(@, value)]
      [] OTHER -> channel

\* WRam::write (wram.rs 36-47)
WRam_write(wram, addr, value) ==
    CASE addr = 8576 -> [wram EXCEPT !.data = mem_set(@, wram.wmadd, value), !.wmadd = (@ + 1) % 131072]
      [] addr = 8577 -> [wram EXCEPT !.wmadd = (@ \div 256) * 256 + value]
      [] addr = 8578 -> [wram EXCEPT !.wmadd = (@ \div 65536) * 65536 + value * 256 + (@ % 256)]
      [] addr = 8579 -> [wram EXCEPT !.wmadd = (@ % 65536) + 65536 * (value % 2)]
      [] OTHER -> wram

\* u16::rotate_right
rotate_right(x, k) == (x \div 2 ^ k) + (x % 2 ^ k) * 2 ^ (16 - k)

\* the address bits of VMAIN's translation modes (823-828)
translation_bits(translation) == CASE translation = "Bit8" -> 8 [] translation = "Bit9" -> 9 [] OTHER -> 10

\* `(temp & 0x7) | temp >> (16 - n)` (831)
rotated(temp, n) == or16(temp % 8, temp \div 2 ^ (16 - n))

\* Ppu::translated_vram_word_address (ppu.rs 822-834):
\* `(self.vmadd & (!0 << n)) | rotated`
translated_vram_word_address(ppu) ==
    IF ppu.vmain_address_translation = "None" THEN ppu.vmadd
    ELSE or16((ppu.vmadd \div 2 ^ translation_bits(ppu.vmain_address_translation)) * 2 ^ translation_bits(ppu.vmain_address_translation),
              rotated(rotate_right(ppu.vmadd, translation_bits(ppu.vmain_address_translation) - 3), translation_bits(ppu.vmain_address_translation)))

\* Ppu::increment_vmadd (836-843)
increment_vmadd(ppu) == [ppu EXCEPT !.vmadd = (@ + ppu.vmain_address_increment_step) % 65536]

\* `usize::from(word_addr << 1)`, the shift being one of u16
vram_byte_address(ppu) == (translated_vram_word_address(ppu) * 2) % 65536

\* Ppu::prefetch_vmadd (845-849)
prefetch_vmadd(ppu) == [ppu EXCEPT !.vmdatal = mem_get(ppu.vram, vram_byte_address(ppu)), !.vmdatah = mem_get(ppu.vram, vram_byte_address(ppu) + 1)]

\* the CGRAM byte CGADD and the selector point at (476, 681)
cgram_addr(ppu) == ppu.cgadd * 2 + ppu.cgram_selector

\* `self.cgadd = self.cgadd.wrapping_add(self.cgram_selector);
\* self.cgram_selector ^= 1` (477-478, 682-683)
cgram_advance(ppu) == [ppu EXCEPT !.cgadd = (@ + ppu.cgram_selector) % 256, !.cgram_selector = 1 - @]

\* Ppu::read (ppu.rs 440-503) as called by read(): `addr` is the full bus
\* address; SLHV (0x2137) has no value and reads as the MDR
Ppu_read(e, addr) ==
    IF Panicked(e) THEN e
    ELSE IF addr = 8503 THEN ret(e, e.cpu.mdr)
    ELSE IF addr = 8505 THEN ret([e EXCEPT !.ppu = IF @.vmain_increment_mode = "Low" THEN increment_vmadd(prefetch_vmadd(@)) ELSE @], e.ppu.vmdatal)
    ELSE IF addr = 8506 THEN ret([e EXCEPT !.ppu = IF @.vmain_increment_mode = "High" THEN increment_vmadd(prefetch_vmadd(@)) ELSE @], e.ppu.vmdatah)
    ELSE IF addr = 8507 THEN ret([e EXCEPT !.ppu = cgram_advance(@)], mem_get(e.ppu.cgram, cgram_addr(e.ppu)))
    ELSE IF addr >= 8500 /\ addr <= 8511 THEN ret(e, e.rom.dat)
    ELSE Panic(e, "open bus read (PPU)")

\* VMAIN (598-617)
vmain(ppu, value) ==
    [ppu EXCEPT !.vmain_increment_mode = IF value >= 128 THEN "High" ELSE "Low",
                !.vmain_address_translation = CASE (value \div 4) % 4 = 0 -> "None" [] (value \div 4) % 4 = 1 -> "Bit8" [] (value \div 4) % 4 = 2 -> "Bit9" [] OTHER -> "Bit10",
                !.vmain_address_increment_step = CASE value % 4 = 0 -> 1 [] value % 4 = 1 -> 32 [] OTHER -> 128]

\* Ppu::write (ppu.rs 505-813): OBSEL (511-525), VMAIN, VMADDL/H, VMDATAL/H (598-636), CGADD
\* and CGDATA (676-684), SETINI (803-810); the other registers change only
\* what the picture is drawn from
Ppu_write(e, addr, value) ==
    IF Panicked(e) THEN e
    ELSE CASE addr = 8499 -> [e EXCEPT !.ppu.setini_interlace = bit(value, 0), !.ppu.setini_overscan = bit(value, 2), !.ppu.setini_hpseudo512 = bit(value, 3)]
           [] addr = 8449 -> [e EXCEPT !.ppu.obsel_size_selection = value \div 32, !.ppu.obsel_gap = (value \div 8) % 4, !.ppu.obsel_base_address = value % 8]
           [] addr = 8469 -> [e EXCEPT !.ppu = vmain(@, value)]
           [] addr = 8470 -> [e EXCEPT !.ppu = prefetch_vmadd([@ EXCEPT !.vmadd = (@ \div 256) * 256 + value])]
           [] addr = 8471 -> [e EXCEPT !.ppu = prefetch_vmadd([@ EXCEPT !.vmadd = (@ % 256) + value * 256])]
           [] addr = 8472 -> [e EXCEPT !.ppu = IF @.vmain_increment_mode = "Low" THEN increment_vmadd([@ EXCEPT !.vram = mem_set(@, vram_byte_address(e.ppu), value)])
                                               ELSE [@ EXCEPT !.vram = mem_set(@, vram_byte_address(e.ppu), value)]]
           [] addr = 8473 -> [e EXCEPT !.ppu = IF @.vmain_increment_mode = "High" THEN increment_vmadd([@ EXCEPT !.vram = mem_set(@, vram_byte_address(e.ppu) + 1, value)])
                                               ELSE [@ EXCEPT !.vram = mem_set(@, vram_byte_address(e.ppu) + 1, value)]]
           [] addr = 8481 -> [e EXCEPT !.ppu.cgadd = value, !.ppu.cgram_selector = 0]
           [] addr = 8482 -> [e EXCEPT !.ppu = cgram_advance([@ EXCEPT !.cgram = mem_set(@, cgram_addr(e.ppu), value)])]
           [] OTHER -> e

---------------------------------------------------------------------------
(* The bus (cpu.rs 675-762).                                               *)

\* the `match device` of read (686-725).  The cartridge ROM holds the bytes
\* of the instruction at the address the opcode is fetched from, the
\* emulation reset vector at 00:FFFC and, in every other interrupt vector
\* at the top of bank 0, the word 0x80vv for the vector at 00:FFvv
read_device(e, addr, r) ==
    IF Panicked(e) THEN e
    ELSE CASE r.device = "WRam" -> ret(e, mem_get(e.wram.data, r.addr))
           [] r.device = "Ppu" -> Ppu_read(ppu_catch_up(e), addr)
           [] r.device = "WRamAccess" ->
                IF r.addr = 8576 THEN ret([e EXCEPT !.wram.wmadd = (@ + 1) % 131072], mem_get(e.wram.data, e.wram.wmadd))
                ELSE Panic(e, "open bus read (WRAM Access)")
           [] r.device = "Joypad" -> ret(e, IF r.addr = 16406 THEN 3 ELSE 31)
           [] r.device = "CpuIo" -> Cpu_read(e, r.addr)
           [] r.device = "Dma" -> IF r.addr % 16 >= 12 /\ r.addr % 16 <= 14 THEN Panic(e, "open bus read (DMA)") ELSE ret(e, e.rom.dat)
           [] r.device = "Rom" ->
                IF e.rom.base >= 0 /\ addr >= e.rom.base /\ addr <= e.rom.base + 3 THEN ret(e, e.rom.ins[addr - e.rom.base + 1])
                ELSE IF addr = 65532 THEN ret(e, getl(e.host.vector))
                ELSE IF addr = 65533 THEN ret(e, geth(e.host.vector))
                ELSE IF addr >= 65504 /\ addr <= 65535 THEN ret(e, IF addr % 2 = 1 THEN 128 ELSE addr % 256)
                ELSE ret(e, e.rom.dat)
           [] OTHER -> ret(e, e.rom.dat)

\* the bookkeeping of a bus access of `addr` that found the machine `e` and whose
\* timer run left the machine `d`
note_access(e, d, addr) ==
    IF Panicked(d) THEN d
    ELSE [d EXCEPT !.gh.bus = Append(@, [addr |-> addr, c0 |-> e.cpu.cycles, c |-> d.cpu.cycles, hv |-> d.cpu.hv_counter_cycles])]

\* `emu.cpu.mdr = value` (727)
set_mdr(e) == IF Panicked(e) THEN e ELSE [e EXCEPT !.cpu.mdr = e.v]

\* read(emu, addr): the byte is left in v and in the MDR
read(e, addr) ==
    IF Panicked(e) THEN ret(e, 0)
    ELSE IF resolve_addr(addr, e.cpu.mapping_mode).device = "Todo" THEN Panic(e, "todo: mapping mode")
    ELSE IF resolve_addr(addr, e.cpu.mapping_mode).device = "None" THEN Panic([e EXCEPT !.gh.open_bus = TRUE], "open bus read")
    ELSE set_mdr(read_device(note_access(e, run_timer([e EXCEPT !.cpu.cycles = @ + 6], "Stepped"), addr), addr, resolve_addr(addr, e.cpu.mapping_mode)))

\* the `match device` of write (745-761)
write_device(e, r, value) ==
    IF Panicked(e) THEN e
    ELSE CASE r.device = "WRam" -> [e EXCEPT !.wram.data = mem_set(@, r.addr, value)]
           [] r.device = "Ppu" -> Ppu_write(ppu_catch_up(e), r.addr, value)
           [] r.device = "WRamAccess" -> [e EXCEPT !.wram = WRam_write(@, r.addr, value)]
           [] r.device = "CpuIo" -> [e EXCEPT !.cpu = Cpu_write(@, r.addr, value)]
           [] r.device = "Dma" -> [e EXCEPT !.dma.channels[(r.addr \div 16) % 16] = Dma_write(@, r.addr % 16, value)]
           [] OTHER -> e

\* write(emu, addr, value)
write(e, addr, value) ==
    IF Panicked(e) THEN e
    ELSE IF resolve_addr(addr, e.cpu.mapping_mode).device = "Todo" THEN Panic(e, "todo: mapping mode")
    ELSE IF resolve_addr(addr, e.cpu.mapping_mode).device = "None" THEN Panic([e EXCEPT !.gh.open_bus = TRUE, !.cpu.mdr = value], "open bus write")
    ELSE write_device(note_access(e, run_timer([e EXCEPT !.cpu.mdr = value, !.cpu.cycles = @ + 6], "Stepped"), addr), resolve_addr(addr, e.cpu.mapping_mode), value)

---------------------------------------------------------------------------
(* Instruction bytes, pointers and operands (cpu.rs 189-229, 764-825,      *)
(* 945-1135).  A Pointer is [kind |-> "Memory", low, high], which is also  *)
(* the Operand::Memory that read_operand makes of it; a register operand   *)
(* is [kind |-> "A"], "X", "Y" or "S".                                     *)

next_instr_byte(e) == read([e EXCEPT !.cpu.regs.pc = (@ + 1) % 65536], e.cpu.regs.k * 65536 + e.cpu.regs.pc)

skip_instr_byte(e) == [e EXCEPT !.cpu.regs.pc = (@ + 1) % 65536, !.cpu.cycles = @ + 6]

Pointer_new16(hh, mmll) == [kind |-> "Memory", low |-> hh * 65536 + mmll, high |-> IF mmll = 65535 THEN set_bit(hh, 0) * 65536 ELSE hh * 65536 + mmll + 1]

Pointer_new8(hh, mm, ll) == [kind |-> "Memory", low |-> hh * 65536 + mm * 256 + ll, high |-> IF ll = 255 THEN hh * 65536 + set_bit(mm, 0) * 256 ELSE hh * 65536 + mm * 256 + ll + 1]

Pointer_new24(hhmmll) == [kind |-> "Memory", low |-> hhmmll, high |-> hhmmll + 1]

\* the pointer of AddressingMode::Absolute from the two bytes fetched
pointer_absolute(e) == drop(ret(e, Pointer_new24(e.cpu.regs.dbr * 65536 + e.v * 256 + local(e))))

\* read_pointer(emu, mode): the pointer is left in v
read_pointer(e, mode) ==
    CASE mode = "Absolute" -> pointer_absolute(next_instr_byte(keep(next_instr_byte(e))))
      [] mode = "ImmediateM" -> ret([e EXCEPT !.cpu.regs.pc = (@ + 2 - b2n(e.cpu.regs.p.m)) % 65536], Pointer_new16(e.cpu.regs.k, e.cpu.regs.pc))
      [] mode = "ImmediateX" -> ret([e EXCEPT !.cpu.regs.pc = (@ + 2 - b2n(e.cpu.regs.p.xb)) % 65536], Pointer_new16(e.cpu.regs.k, e.cpu.regs.pc))
      [] mode = "Immediate8" -> ret([e EXCEPT !.cpu.regs.pc = (@ + 1) % 65536], Pointer_new16(e.cpu.regs.k, e.cpu.regs.pc))

is_not_wide(operand, flags) == IF operand.kind \in {"X", "Y"} THEN flags.xb ELSE flags.m

get_operand_u8(e, operand) ==
    IF Panicked(e) THEN e
    ELSE CASE operand.kind = "A" -> ret(e, getl(e.cpu.regs.a))
           [] operand.kind = "X" -> ret(e, getl(e.cpu.regs.x))
           [] operand.kind = "Y" -> ret(e, getl(e.cpu.regs.y))
           [] operand.kind = "Memory" -> read(e, operand.low)

get_operand_u16(e, operand) ==
    IF Panicked(e) THEN e
    ELSE CASE operand.kind = "A" -> ret(e, e.cpu.regs.a)
           [] operand.kind = "X" -> ret(e, e.cpu.regs.x)
           [] operand.kind = "Y" -> ret(e, e.cpu.regs.y)
           [] operand.kind = "Memory" -> join16(read(keep(read(e, operand.low)), operand.high))

set_operand_u8(e, operand, value) ==
    IF Panicked(e) THEN e
    ELSE CASE operand.kind = "A" -> [e EXCEPT !.cpu.regs.a = setl(@, value)]
           [] operand.kind = "X" -> [e EXCEPT !.cpu.regs.x = setl(@, value)]
           [] operand.kind = "Y" -> [e EXCEPT !.cpu.regs.y = setl(@, value)]
           [] operand.kind = "Memory" -> write(e, operand.low, value)

set_operand_u16(e, operand, value) ==
    IF Panicked(e) THEN e
    ELSE CASE operand.kind = "A" -> [e EXCEPT !.cpu.regs.a = value]
           [] operand.kind = "X" -> [e EXCEPT !.cpu.regs.x = value]
           [] operand.kind = "Y" -> [e EXCEPT !.cpu.regs.y = value]
           [] operand.kind = "Memory" -> write(write(e, operand.low, getl(value)), operand.high, geth(value))

---------------------------------------------------------------------------
(* The stack (cpu.rs 827-875).                                             *)

push8old(e, value) ==
    [write(e, e.cpu.regs.s, value) EXCEPT !.cpu.regs.s = IF e.cpu.regs.p.e THEN setl(@, (getl(@) + 255) % 256) ELSE (@ + 65535) % 65536]

\* a variant that keeps the stack pointer in page 1 in emulation mode
push8new_in_page(e, value) ==
    [write(e, e.cpu.regs.s, value) EXCEPT !.cpu.regs.s = IF e.cpu.regs.p.e THEN setl(@, (getl(@) + 255) % 256) ELSE (@ + 65535) % 65536]

push8new(e, value) == [write(e, e.cpu.regs.s, value) EXCEPT !.cpu.regs.s = (@ + 65535) % 65536]

push16old(e, value) == push8old(push8old(e, geth(value)), getl(value))

push16new(e, value) == push8new(push8new(e, geth(value)), getl(value))

pull8old(e) ==
    read([e EXCEPT !.cpu.regs.s = IF e.cpu.regs.p.e THEN setl(@, (getl(@) + 1) % 256) ELSE (@ + 1) % 65536],
         IF e.cpu.regs.p.e THEN setl(e.cpu.regs.s, (getl(e.cpu.regs.s) + 1) % 256) ELSE (e.cpu.regs.s + 1) % 65536)

pull16old(e) == join16(pull8old(keep(pull8old(e))))

---------------------------------------------------------------------------
(* Flag and stack fix-ups (cpu.rs 1866-1883).                              *)

\* flags_updated without its second `if`
flags_updated_e_only(e) ==
    IF e.cpu.regs.p.e THEN [e EXCEPT !.cpu.regs.p.m = TRUE, !.cpu.regs.p.xb = TRUE, !.cpu.regs.s = seth(@, 1)] ELSE e

flags_updated(e) ==
    IF e.cpu.regs.p.e THEN [e EXCEPT !.cpu.regs.p.m = TRUE, !.cpu.regs.p.xb = TRUE, !.cpu.regs.s = seth(@, 1), !.cpu.regs.x = seth(@, 0), !.cpu.regs.y = seth(@, 0)]
    ELSE IF e.cpu.regs.p.xb THEN [e EXCEPT !.cpu.regs.x = seth(@, 0), !.cpu.regs.y = seth(@, 0)]
    ELSE e

stack_modified_new(e) == IF e.cpu.regs.p.e THEN [e EXCEPT !.cpu.regs.s = seth(@, 1)] ELSE e

---------------------------------------------------------------------------
(* Interrupt entry (cpu.rs 877-943).                                       *)

\* the variant that sends every interrupt through the IRQ vector
vector_addr_irq(e_flag, interrupt) == IF e_flag THEN 65534 ELSE 65518

\* the vector of an interrupt (919-936); -1: the panic of the Reset arm
vector_addr(e_flag, interrupt) ==
    IF e_flag
    THEN CASE interrupt = INT_COP -> 65524
           [] interrupt = INT_ABORT -> 65528
           [] interrupt = INT_NMI -> 65530
           [] interrupt = INT_RESET -> 65532
           [] OTHER -> 65534
    ELSE CASE interrupt = INT_COP -> 65508
           [] interrupt = INT_BREAK -> 65510
           [] interrupt = INT_ABORT -> 65512
           [] interrupt = INT_NMI -> 65514
           [] interrupt = INT_RESET -> -1
           [] interrupt = INT_IRQ -> 65518

\* `regs.<r> = value`, the value being the one just returned
set_reg(e, r) == [e EXCEPT !.cpu.regs[r] = e.v]

\* the flags, the vector fetch and the jump (916-942) after the pushes
enter_vector(e, vector) ==
    IF vector < 0 THEN Panic(e, "cannot enter reset interrupt handler in native mode")
    ELSE [set_reg(join16(read(keep(read([e EXCEPT !.cpu.regs.p.i = TRUE, !.cpu.regs.p.d = FALSE], vector)), vector + 1)), "pc") EXCEPT !.cpu.regs.k = 0]

\* the bookkeeping of a handler entry: the registers it found
entry_noted(e) == [e EXCEPT !.hist.entry = <<e.cpu.regs>>]

\* a variant that pushes the flags after I and D have been changed
enter_interrupt_handler_flags_late(e, interrupt) ==
    enter_vector(push8old(push16old(IF ~e.cpu.regs.p.e THEN push8old(entry_noted(e), e.cpu.regs.k) ELSE entry_noted(e), e.cpu.regs.pc),
                          to_bits([e.cpu.regs.p EXCEPT !.i = TRUE, !.d = FALSE])),
                 vector_addr(e.cpu.regs.p.e, interrupt))

\* K, the return address and the flags are pushed (906-914); none of them
\* is changed by a push
enter_interrupt_handler(e, interrupt) ==
    enter_vector(push8old(push16old(IF ~e.cpu.regs.p.e THEN push8old(entry_noted(e), e.cpu.regs.k) ELSE entry_noted(e), e.cpu.regs.pc), to_bits(e.cpu.regs.p)),
                 vector_addr(e.cpu.regs.p.e, interrupt))

\* int_reset with Cpu::reset (cpu.rs 436-455) and Ppu::reset (ppu.rs
\* 851-859); Apu::reset changes only the sound unit
int_reset(e) ==
    [enter_interrupt_handler([e EXCEPT !.cpu.regs.p = Flags_default, !.cpu.regs.x = seth(@, 0), !.cpu.regs.y = seth(@, 0), !.cpu.regs.s = seth(@, 1)], INT_RESET)
        EXCEPT !.cpu.nmitimen_vblank_nmi_enable = FALSE, !.cpu.nmitimen_hv_irq = 0, !.cpu.nmitimen_joypad_enable = FALSE, !.cpu.mdmaen = 0, !.cpu.rdnmi_vblank_nmi_flag = TRUE,
               !.cpu.joy1l = 0, !.cpu.joy1h = 0, !.cpu.joy2l = 0, !.cpu.joy2h = 0, !.cpu.joy3l = 0, !.cpu.joy3h = 0, !.cpu.joy4l = 0, !.cpu.joy4h = 0,
               !.ppu.setini_interlace = FALSE, !.ppu.setini_overscan = FALSE, !.ppu.setini_hpseudo512 = FALSE]

int_break(e) == enter_interrupt_handler(skip_instr_byte([e EXCEPT !.cpu.regs.p.xb = IF e.cpu.regs.p.e THEN TRUE ELSE @]), INT_BREAK)

int_cop(e) == enter_interrupt_handler(skip_instr_byte(e), INT_COP)

---------------------------------------------------------------------------
(* Interrupt dispatch (cpu.rs 1945-1968).                                  *)

\* a variant in which the I flag masks the IRQ of a waiting CPU as well
selected_interrupt_masked(cpu) ==
    trailing_zeros(IF cpu.regs.p.i THEN clear_bit(cpu.pending_interrupts, INT_IRQ) ELSE cpu.pending_interrupts)

\* the interrupt selected: the lowest pending bit that is not masked
\* (1946-1948); 8 when there is none
selected_interrupt(cpu) ==
    trailing_zeros(IF cpu.regs.p.i /\ ~cpu.waiting THEN clear_bit(cpu.pending_interrupts, INT_IRQ) ELSE cpu.pending_interrupts)

\* the pending bit is cleared (1953); the bookkeeping notes the interrupt
\* when its handler is entered
take_interrupt(e, interrupt, entered) ==
    [e EXCEPT !.cpu.pending_interrupts = clear_bit(@, interrupt),
              !.gh.dispatched = IF entered THEN Append(@, interrupt) ELSE @,
              !.hist.nmi_owed = IF entered /\ interrupt = INT_NMI THEN FALSE ELSE @]

\* process_interrupt once the interrupt is selected (1949-1967)
dispatch_interrupt(e, interrupt) ==
    CASE interrupt = INT_RESET -> int_reset(take_interrupt(e, interrupt, TRUE))
      [] interrupt = INT_NMI -> enter_interrupt_handler(take_interrupt(e, interrupt, TRUE), INT_NMI)
      [] interrupt = INT_ABORT -> Panic(take_interrupt(e, interrupt, FALSE), "todo: abort interrupt")
      [] interrupt = INT_IRQ -> IF ~e.cpu.regs.p.i THEN enter_interrupt_handler(take_interrupt(e, interrupt, TRUE), INT_IRQ)
                                ELSE take_interrupt(e, interrupt, FALSE)
      [] interrupt = INT_COP -> int_cop(take_interrupt(e, interrupt, TRUE))
      [] interrupt = INT_BREAK -> int_break(take_interrupt(e, interrupt, TRUE))
      [] OTHER -> e

process_interrupt(e) == dispatch_interrupt(e, selected_interrupt(e.cpu))

---------------------------------------------------------------------------
(* Instructions (cpu.rs 1551-1864).                                        *)

\* `let value = <the call just made>; F(emu, value)`
with_v(e, F(_, _)) == F(e, e.v)

\* `set_operand_u8(emu, operand, value); p.n = ...; p.z = ...` and its
\* 16-bit twin, with the value just returned
store_v(e, operand, wide) ==
    IF Panicked(e) THEN e
    ELSE IF wide THEN [set_operand_u16(e, operand, e.v) EXCEPT !.cpu.regs.p.n = e.v >= 32768, !.cpu.regs.p.z = e.v = 0]
    ELSE [set_operand_u8(e, operand, e.v) EXCEPT !.cpu.regs.p.n = e.v >= 128, !.cpu.regs.p.z = e.v = 0]

\* `p.set_from_bits(value)` with the value just pulled; RTI forces M and XB
\* in emulation mode (1555-1559)
set_p(e, emulation) ==
    [e EXCEPT !.cpu.regs.p = IF emulation THEN [set_from_bits(@, e.v) EXCEPT !.m = TRUE, !.xb = TRUE] ELSE set_from_bits(@, e.v)]

\* a variant that leaves K on the stack in native mode
inst_rti_short(e) == set_reg(pull16old(flags_updated(set_p(pull8old(e), e.cpu.regs.p.e))), "pc")

inst_rti(e) ==
    IF e.cpu.regs.p.e THEN set_reg(pull16old(flags_updated(set_p(pull8old(e), TRUE))), "pc")
    ELSE set_reg(pull8old(set_reg(pull16old(flags_updated(set_p(pull8old(e), FALSE))), "pc")), "k")

\* the new flags of REP (set = FALSE) and SEP (set = TRUE) from the mask
\* just read (1572-1575, 1580-1583)
status_mask(e, set) ==
    flags_updated([e EXCEPT !.cpu.regs.p = set_from_bits(@, IF set THEN or8(to_bits(@), e.v) ELSE and8(to_bits(@), 255 - e.v))])

inst_rep(e) == status_mask(with_v(read_pointer(e, "Immediate8"), get_operand_u8), FALSE)

inst_sep(e) == status_mask(with_v(read_pointer(e, "Immediate8"), get_operand_u8), TRUE)

\* a load (1586-1629) after read_operand: the operand goes to register dst,
\* whose width is p.m for A and p.xb for X and Y
load_operand(e, dst) ==
    IF is_not_wide(dst, e.cpu.regs.p) THEN store_v(with_v(e, get_operand_u8), dst, FALSE)
    ELSE store_v(with_v(e, get_operand_u16), dst, TRUE)

inst_lda(e, mode) == load_operand(read_pointer(e, mode), [kind |-> "A"])

inst_ldx(e, mode) == load_operand(read_pointer(e, mode), [kind |-> "X"])

\* inst_adc (1137-1201).  A decimal digit that reached ten carries into the
\* next (1147-1149, 1170-1181)
adc_digit(sum, k) == IF sum >= 10 * (16 ^ k) THEN set_bit(sum - 10 * (16 ^ k), 4 * (k + 1)) ELSE sum

\* `x & 0x000F`, `x & 0x00F0`, `x & 0x0F00`, `x & 0xF000` for k = 0..3
digit_of(x, k) == ((x \div (16 ^ k)) % 16) * (16 ^ k)

\* `result` before the final adjustment, 8-bit (1143-1151)
adc_sum8_binary(al, value, c, d) == c + al + value

adc_sum8(al, value, c, d) ==
    IF ~d THEN c + al + value
    ELSE adc_digit(c + digit_of(al, 0) + digit_of(value, 0), 0) + digit_of(al, 1) + digit_of(value, 1)

\* and 16-bit (1167-1182)
adc_sum16(a, value, c, d) ==
    IF ~d THEN c + a + value
    ELSE adc_digit(adc_digit(adc_digit(c + digit_of(a, 0) + digit_of(value, 0), 0)
                             + digit_of(a, 1) + digit_of(value, 1), 1)
                   + digit_of(a, 2) + digit_of(value, 2), 2)
         + digit_of(a, 3) + digit_of(value, 3)

\* `((!(a ^ value) & (a ^ result)) & sign) != 0` for the sign bit k
adc_overflow(a, value, sum, k) == bit(a, k) = bit(value, k) /\ bit(a, k) # bit(sum, k)

\* 1153-1162 and 1184-1193, from the sum: the adjustment of the top digit,
\* the accumulator and the flags
adc_finish(e, a, value, sum, wide) ==
    IF wide
    THEN [e EXCEPT !.cpu.regs.a = (IF e.cpu.regs.p.d /\ sum >= 40960 THEN sum + 24576 ELSE sum) % 65536,
                   !.cpu.regs.p.n = bit(IF e.cpu.regs.p.d /\ sum >= 40960 THEN sum + 24576 ELSE sum, 15),
                   !.cpu.regs.p.c = (IF e.cpu.regs.p.d /\ sum >= 40960 THEN sum + 24576 ELSE sum) > 65535,
                   !.cpu.regs.p.v = adc_overflow(a, value, sum, 15),
                   !.cpu.regs.p.z = (IF e.cpu.regs.p.d /\ sum >= 40960 THEN sum + 24576 ELSE sum) % 65536 = 0]
    ELSE [e EXCEPT !.cpu.regs.a = setl(@, (IF e.cpu.regs.p.d /\ sum >= 160 THEN sum + 96 ELSE sum) % 256),
                   !.cpu.regs.p.n = bit(IF e.cpu.regs.p.d /\ sum >= 160 THEN sum + 96 ELSE sum, 7),
                   !.cpu.regs.p.c = (IF e.cpu.regs.p.d /\ sum >= 160 THEN sum + 96 ELSE sum) > 255,
                   !.cpu.regs.p.v = adc_overflow(a, value, sum, 7),
                   !.cpu.regs.p.z = (IF e.cpu.regs.p.d /\ sum >= 160 THEN sum + 96 ELSE sum) % 256 = 0]

\* the operand is recorded in gh.applied
adc_value(e, value) ==
    IF Panicked(e) THEN e
    ELSE IF e.cpu.regs.p.m
    THEN adc_finish([e EXCEPT !.gh.applied = <<[f |-> "inst_adc", value |-> value]>>], getl(e.cpu.regs.a), value, adc_sum8(getl(e.cpu.regs.a), value, b2n(e.cpu.regs.p.c), e.cpu.regs.p.d), FALSE)
    ELSE adc_finish([e EXCEPT !.gh.applied = <<[f |-> "inst_adc", value |-> value]>>], e.cpu.regs.a, value, adc_sum16(e.cpu.regs.a, value, b2n(e.cpu.regs.p.c), e.cpu.regs.p.d), TRUE)

adc_operand(e, operand) ==
    IF e.cpu.regs.p.m THEN with_v(get_operand_u8(e, operand), adc_value) ELSE with_v(get_operand_u16(e, operand), adc_value)

inst_adc(e, mode) == with_v(read_pointer(e, mode), adc_operand)

\* inst_sta (1631-1638) after read_operand
sta_operand(e, operand) ==
    IF e.cpu.regs.p.m THEN set_operand_u8(e, operand, getl(e.cpu.regs.a)) ELSE set_operand_u16(e, operand, e.cpu.regs.a)

inst_sta(e, mode) == with_v(read_pointer(e, mode), sta_operand)

\* the byte copied by MVN/MVP (1670-1679): the destination bank is the
\* saved local, the source bank the value just returned
mvn_copy(e) ==
    drop(with_v(read([e EXCEPT !.cpu.regs.dbr = local(e)], e.v * 65536 + e.cpu.regs.x), LAMBDA d, value : write(d, local(e) * 65536 + e.cpu.regs.y, value)))

\* the registers after the copy (1681-1697)
mvn_finish(e, step) ==
    [e EXCEPT !.cpu.regs.x = IF e.cpu.regs.p.xb THEN ((@ + step + 65536) % 65536) % 256 ELSE (@ + step + 65536) % 65536,
              !.cpu.regs.y = IF e.cpu.regs.p.xb THEN ((@ + step + 65536) % 65536) % 256 ELSE (@ + step + 65536) % 65536,
              !.cpu.regs.a = (@ + 65535) % 65536,
              !.cpu.regs.pc = IF (e.cpu.regs.a + 65535) % 65536 # 65535 THEN (@ + 65533) % 65536 ELSE @]

inst_mvn_mvp(e, step) == mvn_finish(mvn_copy(next_instr_byte(keep(next_instr_byte(e)))), step)

inst_pea(e) == stack_modified_new(with_v(join16(next_instr_byte(keep(next_instr_byte(e)))), push16new))

inst_php(e) == push8old(e, to_bits(e.cpu.regs.p))

inst_plp(e) == flags_updated(set_p(pull8old(e), FALSE))

inst_transfer(e, src, dst) ==
    IF is_not_wide(dst, e.cpu.regs.p) THEN store_v(get_operand_u8(e, src), dst, FALSE)
    ELSE store_v(get_operand_u16(e, src), dst, TRUE)

\* TXS as it would be without the emulation-mode case: all of X goes to S
inst_txs_wide(e) == [e EXCEPT !.cpu.regs.s = e.cpu.regs.x]

inst_txs(e) == [e EXCEPT !.cpu.regs.s = IF e.cpu.regs.p.e THEN setl(@, getl(e.cpu.regs.x)) ELSE e.cpu.regs.x]

inst_xce(e) == flags_updated([e EXCEPT !.cpu.regs.p.c = e.cpu.regs.p.e, !.cpu.regs.p.e = e.cpu.regs.p.c])

---------------------------------------------------------------------------
(* General-purpose DMA (cpu.rs 1886-1942).                                 *)

\* the A-bus address and the byte counter after the transfer (1925-1933);
\* `das -= 1` overflows when the transfer itself has zeroed the counter.
\* The bookkeeping notes the byte that has gone from src_addr to dst_addr
dma_advance(e, idx, src_addr, dst_addr) ==
    IF Panicked(e) THEN e
    ELSE IF e.dma.channels[idx].das = 0 /\ e.build.overflow_checks THEN Panic(e, "attempt to subtract with overflow")
    ELSE [e EXCEPT !.dma.channels[idx].a1t = CASE e.dma.channels[idx].a_bus_address_step = "Increment" -> (@ + 1) % 65536
                                               [] e.dma.channels[idx].a_bus_address_step = "Decrement" -> (@ + 65535) % 65536
                                               [] OTHER -> @,
                  !.dma.channels[idx].das = (@ + 65535) % 65536,
                  !.gh.dma_bytes = Append(@, [channel |-> idx, src |-> src_addr, dst |-> dst_addr, byte |-> e.v])]

\* one byte from src_addr to dst_addr (1922-1933)
dma_byte(e, idx, src_addr, dst_addr) ==
    dma_advance(with_v(read(e, src_addr), LAMBDA d, byte : write(d, dst_addr, byte)), idx, src_addr, dst_addr)

\* the `if channel.das > 0` (1896-1934); `bbad + offset` is a u8 sum
dma_unit(e, idx, channel, offset) ==
    IF channel.das = 0 THEN e
    ELSE IF channel.bbad + offset > 255 /\ e.build.overflow_checks THEN Panic(e, "attempt to add with overflow")
    ELSE IF channel.transfer_direction = "BToA"
         THEN dma_byte([e EXCEPT !.cpu.dma_counter = CASE channel.transfer_unit_select \in {1, 5} -> toggle_bit(@, 1)
                                                       [] channel.transfer_unit_select \in {3, 7} -> (@ + 1) % 4
                                                       [] channel.transfer_unit_select = 4 -> (@ + 2) % 8
                                                       [] OTHER -> @],
                       idx, 8448 + ((channel.bbad + offset) % 256), channel.a1b * 65536 + channel.a1t)
         ELSE dma_byte([e EXCEPT !.cpu.dma_counter = CASE channel.transfer_unit_select \in {1, 5} -> toggle_bit(@, 1)
                                                       [] channel.transfer_unit_select \in {3, 7} -> (@ + 1) % 4
                                                       [] channel.transfer_unit_select = 4 -> (@ + 2) % 8
                                                       [] OTHER -> @],
                       idx, channel.a1b * 65536 + channel.a1t, 8448 + ((channel.bbad + offset) % 256))

\* `if channel.das == 0` (1936-1939)
dma_finish(e, idx) ==
    IF ~Panicked(e) /\ e.dma.channels[idx].das = 0 THEN [e EXCEPT !.cpu.dma_counter = 0, !.cpu.mdmaen = toggle_bit(@, idx)] ELSE e

process_dma(e) ==
    dma_finish(dma_unit(e, trailing_zeros(e.cpu.mdmaen), e.dma.channels[trailing_zeros(e.cpu.mdmaen)], e.cpu.dma_counter \div 2), trailing_zeros(e.cpu.mdmaen))

---------------------------------------------------------------------------
(* The step (cpu.rs 1970-2366).                                            *)

\* the `match op` (2007-2355), for the opcodes of the model
execute(e, op) ==
    CASE op = 0 -> int_break(e)
      [] op = 2 -> int_cop(e)
      [] op = 8 -> inst_php(e)
      [] op = 40 -> inst_plp(e)
      [] op = 64 -> inst_rti(e)
      [] op = 66 -> skip_instr_byte(e)
      [] op = 84 -> inst_mvn_mvp(e, 1)
      [] op = 88 -> [e EXCEPT !.cpu.regs.p.i = FALSE]
      [] op = 105 -> inst_adc(e, "ImmediateM")
      [] op = 141 -> inst_sta(e, "Absolute")
      [] op = 154 -> inst_txs(e)
      [] op = 155 -> inst_transfer(e, [kind |-> "X"], [kind |-> "Y"])
      [] op = 162 -> inst_ldx(e, "ImmediateX")
      [] op = 173 -> inst_lda(e, "Absolute")
      [] op = 194 -> inst_rep(e)
      [] op = 203 -> [e EXCEPT !.cpu.waiting = TRUE]
      [] op = 219 -> [e EXCEPT !.cpu.stopped = TRUE]
      [] op = 226 -> inst_sep(e)
      [] op = 234 -> e
      [] op = 244 -> inst_pea(e)
      [] op = 251 -> inst_xce(e)

\* `return StepResult::...`
returns(e, res) == [e EXCEPT !.res = res]

\* a variant that tests the breakpoints in every step
do_step_awake_unignored(e, ignore_breakpoints) ==
    IF e.cpu.waiting THEN returns(e, "Stepped")
    ELSE IF (e.cpu.regs.k * 65536 + e.cpu.regs.pc) \in e.cpu.breakpoints THEN returns(e, "BreakpointHit")
    ELSE returns(with_v(next_instr_byte([e EXCEPT !.rom.base = e.cpu.regs.k * 65536 + e.cpu.regs.pc,
                                                  !.gh.fetch = <<[at |-> e.cpu.regs.k * 65536 + e.cpu.regs.pc, regs |-> e.cpu.regs]>>,
                                                  !.hist.fetched = TRUE, !.hist.entry = <<>>, !.gh.entry = e.hist.entry]),
                        LAMBDA d, op : IF Panicked(d) THEN d ELSE execute([d EXCEPT !.gh.opcode = op], op)), "Stepped")

\* do_step from the `waiting` check on (1984-2357): the instruction of the
\* step is found where the program counter points
do_step_awake(e, ignore_breakpoints) ==
    IF e.cpu.waiting THEN returns(e, "Stepped")
    ELSE IF ~ignore_breakpoints /\ (e.cpu.regs.k * 65536 + e.cpu.regs.pc) \in e.cpu.breakpoints THEN returns(e, "BreakpointHit")
    ELSE returns(with_v(next_instr_byte([e EXCEPT !.rom.base = e.cpu.regs.k * 65536 + e.cpu.regs.pc,
                                                  !.gh.fetch = <<[at |-> e.cpu.regs.k * 65536 + e.cpu.regs.pc, regs |-> e.cpu.regs]>>,
                                                  !.hist.fetched = TRUE, !.hist.entry = <<>>, !.gh.entry = e.hist.entry]),
                        LAMBDA d, op : IF Panicked(d) THEN d ELSE execute([d EXCEPT !.gh.opcode = op], op)), "Stepped")

\* a variant in which a halted CPU goes on fetching
do_step_restless(e, ignore_breakpoints) ==
    IF e.cpu.mdmaen # 0 THEN returns(process_dma(e), "Stepped")
    ELSE do_step_awake(IF e.cpu.pending_interrupts # 0 THEN [process_interrupt(e) EXCEPT !.cpu.waiting = FALSE, !.gh.woken = e.cpu.waiting] ELSE e, ignore_breakpoints)

\* do_step (1970-1983): DMA first, then the halt, then the interrupts
do_step(e, ignore_breakpoints) ==
    IF e.cpu.mdmaen # 0 THEN returns(process_dma(e), "Stepped")
    ELSE IF e.cpu.stopped THEN returns(e, "Stepped")
    ELSE do_step_awake(IF e.cpu.pending_interrupts # 0 THEN [process_interrupt(e) EXCEPT !.cpu.waiting = FALSE, !.gh.woken = e.cpu.waiting] ELSE e, ignore_breakpoints)

\* step after do_step (2361-2365)
step_timer(e) == IF Panicked(e) \/ e.res # "Stepped" THEN e ELSE run_timer(e, "Stepped")

step(e, ignore_breakpoints) == step_timer(do_step(e, ignore_breakpoints))

---------------------------------------------------------------------------
(* The host: it owns the machine, calls step and raises interrupt lines.   *)

\* the machine as a step finds it: the cartridge shows the instruction
\* `ins` at the program counter and the byte `dat` elsewhere, the
\* bookkeeping is empty
prepare(e, ins, dat) ==
    [e EXCEPT !.rom = [ins |-> ins, base |-> -1, dat |-> dat],
              !.gh = [NoGhost EXCEPT !.index_wide = ~e.cpu.regs.p.xb /\ geth(e.cpu.regs.x) # 0],
              !.v = 0, !.t = <<>>, !.res = "Stepped"]

\* the machine as a step leaves it: a panic ends the program, and the
\* machine keeps the state the step found with the reason of the panic
settle(before, e) ==
    IF Panicked(e) THEN [before EXCEPT !.gh = [NoGhost EXCEPT !.panic = e.gh.panic, !.open_bus = e.gh.open_bus], !.res = "Aborted"]
    ELSE [e EXCEPT !.rom = [ins |-> <<0, 0, 0, 0>>, base |-> -1, dat |-> 0], !.v = 0, !.t = <<>>]

\* one call of step(emu, ignore_breakpoints)
StepWith(ins, dat, ignore_breakpoints) ==
    /\ emu' = settle(emu, step(prepare(emu, ins, dat), ignore_breakpoints))
    /\ result' = emu'.res

\* the host calls step (it holds the machine by &mut, so not while run is
\* executing): the CPU finds one of the program's instructions at
\* the program counter; no instruction of the model's programs reads a byte
\* the model does not track
Step ==
    /\ run_state = "idle"
    /\ ~Panicked(emu)
    /\ emu.cpu.cycles < emu.host.deadline
    /\ \E ins \in emu.host.program : StepWith(ins, 0, TRUE)
    /\ UNCHANGED run_state

\* the host raises an interrupt line (Cpu::raise_interrupt is public)
RaiseInterrupt ==
    /\ run_state = "idle"
    /\ ~Panicked(emu)
    /\ emu.cpu.cycles < emu.host.deadline
    /\ \E interrupt \in emu.host.lines : emu' = [emu EXCEPT !.cpu = raise_interrupt(@, interrupt)]
    /\ result' = "None"
    /\ UNCHANGED run_state

Next == Step \/ RaiseInterrupt

\* the machine `e` with a program, a host and `window` cycles to run
Hosted(e, program, lines, window) == [e EXCEPT !.host = [program |-> program, lines |-> lines, deadline |-> e.cpu.cycles + window, vector |-> e.host.vector, ports |-> e.host.ports, stores |-> e.host.stores, loads |-> e.host.loads], !.gh = NoGhost]

\* the machine `e` with a cartridge whose emulation reset vector is `vector`
Cartridge(e, vector) == [e EXCEPT !.host.vector = vector]

---------------------------------------------------------------------------
(* The main specification: from power-on, a program of flag, stack,       *)
(* transfer and block-move instructions, with NMI raised by the host.       *)

InstrsCpu ==
    { <<251, 0, 0, 0>>,      \* XCE
      <<194, 48, 0, 0>>,     \* REP #$30
      <<226, 16, 0, 0>>,     \* SEP #$10
      <<162, 255, 255, 0>>,  \* LDX #$FFFF
      <<154, 0, 0, 0>>,      \* TXS
      <<155, 0, 0, 0>>,      \* TXY
      <<244, 207, 0, 0>>,    \* PEA $00CF
      <<40, 0, 0, 0>>,       \* PLP
      <<64, 0, 0, 0>>,       \* RTI
      <<0, 0, 0, 0>>,        \* BRK
      <<84, 126, 126, 0>>,   \* MVN $7E,$7E
      <<173, 0, 64, 0>>,     \* LDA $4000
      <<141, 0, 64, 0>> }    \* STA $4000

Init ==
    /\ emu \in {Hosted(Snes_new(mapping_mode), InstrsCpu, {INT_NMI}, MaxCycles) : mapping_mode \in {"LoRom", "HiRom"}}
    /\ result = "None"
    /\ run_state = "idle"

Spec == Init /\ [][Next]_vars

---------------------------------------------------------------------------
(* Interrupt lines: from power-on, the host raises any of the six lines    *)
(* between the steps of a program of NOP and CLI.                          *)

InstrsInt ==
    { <<234, 0, 0, 0>>,      \* NOP
      <<88, 0, 0, 0>> }      \* CLI

\* the reset vectors of the cartridges: the start of the ROM window of
\* bank 0, and a word whose two bytes differ
ResetVectors == {32768, 50085}

InitInt ==
    /\ emu \in {Cartridge(Hosted(Snes_new(mapping_mode), InstrsInt, Interrupts, MaxCycles), vector) :
                  mapping_mode \in {"LoRom", "HiRom"}, vector \in ResetVectors}
    /\ result = "None"
    /\ run_state = "idle"

SpecInt == InitInt /\ [][Next]_vars

---------------------------------------------------------------------------
(* Mapping modes: from power-on with each of the three mapping modes, a    *)
(* program of NOPs, the host raising NMI and IRQ.                          *)

InitMap ==
    /\ emu \in {Hosted(Snes_new(mapping_mode), {<<234, 0, 0, 0>>}, {INT_NMI, INT_IRQ}, MaxCycles) : mapping_mode \in {"LoRom", "HiRom", "ExHiRom"}}
    /\ result = "None"
    /\ run_state = "idle"

SpecMap == InitMap /\ [][Next]_vars

---------------------------------------------------------------------------
(* General-purpose DMA: the program has booted, written the registers of   *)
(* channels 0 and 1 and then MDMAEN; NOPs follow, and the host raises NMI. *)

\* no DMA step starts later than this many cycles after the write to MDMAEN
DmaWindow == 61

\* the machine after the first step, which enters the reset handler and
\* executes a NOP
Booted(mapping_mode) == settle(Snes_new(mapping_mode), step(prepare(Snes_new(mapping_mode), <<234, 0, 0, 0>>, 0), TRUE))

\* the program's stores, one bus write each
RECURSIVE write_all(_, _)
write_all(e, writes) == IF writes = <<>> THEN e ELSE write_all(write(e, Head(writes)[1], Head(writes)[2]), Tail(writes))

\* the stores that set up a channel (DMAPx, BBADx, A1TxL, A1TxH, A1Bx,
\* DASxL, DASxH): unit 0, A to B, A address incrementing, from bank 0
ChannelSetup(ch, bbad, a1t, das) ==
    << <<17152 + 16 * ch, 0>>, <<17153 + 16 * ch, bbad>>, <<17154 + 16 * ch, getl(a1t)>>, <<17155 + 16 * ch, geth(a1t)>>,
       <<17156 + 16 * ch, 0>>, <<17157 + 16 * ch, getl(das)>>, <<17158 + 16 * ch, geth(das)>> >>

\* channel 0 copies from the stack page to the WRAM port (0x2180) or to an
\* address of the B bus that no device answers (0x21FF); channel 1 copies
\* from the top of bank 0 to the WRAM port; MDMAEN starts one or both
DmaSetups ==
    { ChannelSetup(0, bbad, 510, das0) \o ChannelSetup(1, 128, 65535, das1) \o << <<16907, mdmaen>> >> :
        bbad \in {128, 255}, das0 \in {0, 1, 2}, das1 \in {0, 1}, mdmaen \in {1, 2, 3} }

InitDma ==
    /\ emu \in {Hosted(settle(Booted(mapping_mode), write_all(prepare(Booted(mapping_mode), <<234, 0, 0, 0>>, 0), setup)), {<<234, 0, 0, 0>>}, {INT_NMI}, DmaWindow) :
                  mapping_mode \in {"LoRom", "HiRom"}, setup \in DmaSetups}
    /\ result = "None"
    /\ run_state = "idle"

SpecDma == InitDma /\ [][Next]_vars

---------------------------------------------------------------------------
(* The raster: the program has run until the H/V counters stand a few      *)
(* dots before the end-of-frame dot (277, 224) or before the V transition  *)
(* into vertical blanking (0, 225) of the first frame; NOP, WDM, CLI, STP  *)
(* and BRK follow, and the host may raise Reset.                           *)

\* the program reaches the dot of interest after TimerLead further pairs of
\* bus accesses (12 master cycles each)
TimerLead == 2

\* no step starts later than this many cycles after the start
TimerWindow == 37

\* the master cycle at which the counters reach (h, v) in the first frame:
\* 4 cycles a dot, 340 dots a line (2371-2377)
DotCycles(h, v) == 4 * (v * 340 + h)

\* the booted machine `e` after it has run to the master cycle `cycles` (a
\* multiple of 12, in the first frame) and the PPU has caught up: the
\* counters and flags are those run_timer computes (2371-2398); NMITIMEN
\* bit 7 is `enable`; RDNMI bit 7 is `flag`, set if a Reset came after line
\* 2 and RDNMI was not read since
AtCycle(e, cycles, enable, flag) ==
    [e EXCEPT !.cpu.cycles = cycles,
              !.cpu.hv_counter_cycles = cycles,
              !.cpu.h_counter = (cycles \div 4) % 340,
              !.cpu.v_counter = (cycles \div 4) \div 340,
              !.cpu.hvbjoy_hblank_period_flag = (cycles \div 4) % 340 < 22 \/ (cycles \div 4) % 340 > 277,
              !.cpu.hvbjoy_vblank_period_flag = (cycles \div 4) \div 340 < 1 \/ (cycles \div 4) \div 340 > output_height(e.ppu),
              !.cpu.nmitimen_vblank_nmi_enable = enable,
              !.cpu.rdnmi_vblank_nmi_flag = flag,
              !.ppu.cycles = cycles,
              !.ppu.hpos = (cycles \div 4) % 340,
              !.ppu.vpos = (cycles \div 4) \div 340]

InstrsTimer ==
    { <<234, 0, 0, 0>>,      \* NOP
      <<66, 0, 0, 0>>,       \* WDM
      <<88, 0, 0, 0>>,       \* CLI
      <<219, 0, 0, 0>>,      \* STP
      <<0, 0, 0, 0>> }       \* BRK

InitTimer ==
    /\ emu \in {Hosted(AtCycle(Booted("LoRom"), DotCycles(h, 224 + b2n(h = 0)) - 12 * TimerLead, enable, flag), InstrsTimer, {INT_RESET}, TimerWindow) :
                  h \in {277, 0}, enable \in BOOLEAN, flag \in BOOLEAN}
    /\ result = "None"
    /\ run_state = "idle"

SpecTimer == InitTimer /\ [][Next]_vars

---------------------------------------------------------------------------
(* run(): the host single-steps a program of NOP, WDM, WAI and STP a few   *)
(* dots before the end-of-frame dot, raises NMI, and calls run, with or    *)
(* without a breakpoint set two bytes into the program.                    *)

InstrsRun ==
    { <<234, 0, 0, 0>>,      \* NOP
      <<66, 0, 0, 0>>,       \* WDM
      <<203, 0, 0, 0>>,      \* WAI
      <<219, 0, 0, 0>> }     \* STP

\* the bit Joypad::strobe gives a button in the shift register (input.rs
\* 39-52)
ButtonBit(button) ==
    CASE button = "b" -> 0 [] button = "y" -> 1 [] button = "select" -> 2 [] button = "start" -> 3
      [] button = "up" -> 4 [] button = "down" -> 5 [] button = "left" -> 6 [] button = "right" -> 7
      [] button = "a" -> 8 [] button = "x" -> 9 [] button = "l" -> 10 [] button = "r" -> 11

RECURSIVE buttons_bits(_)
buttons_bits(state) ==
    IF state = {} THEN 0
    ELSE 2 ^ ButtonBit(CHOOSE button \in state : TRUE) + buttons_bits(state \ {CHOOSE button \in state : TRUE})

\* Joypad::strobe (input.rs 37-53)
strobe(input) == [input EXCEPT !.buffer = buttons_bits(input.state), !.strobes = @ + 1]

\* Joypad::read_data1 (input.rs 55-59): the bit returned is the last of
\* input.data1
read_data1(input) == [input EXCEPT !.buffer = or16(@ \div 2, 32768), !.data1 = Append(@, bit(input.buffer, 0))]

\* InputDevice::read_data2 (input.rs 6-8), which Joypad does not override
read_data2(input) == FALSE

\* one round of read_input's loops (lib.rs 280-283 and 285-288): a bit of
\* each data line shifted into the high registers in the first eight
\* rounds and into the low registers in the next eight
shift_in_low_first(j, round) ==
    IF round >= 8
    THEN [j EXCEPT !.input = read_data1(@), !.joy1h = or8((@ * 2) % 256, b2n(bit(j.input.buffer, 0))), !.joy2h = or8((@ * 2) % 256, b2n(read_data2(j.input)))]
    ELSE [j EXCEPT !.input = read_data1(@), !.joy1l = or8((@ * 2) % 256, b2n(bit(j.input.buffer, 0))), !.joy2l = or8((@ * 2) % 256, b2n(read_data2(j.input)))]

shift_in(j, round) ==
    IF round < 8
    THEN [j EXCEPT !.input = read_data1(@), !.joy1h = or8((@ * 2) % 256, b2n(bit(j.input.buffer, 0))), !.joy2h = or8((@ * 2) % 256, b2n(read_data2(j.input)))]
    ELSE [j EXCEPT !.input = read_data1(@), !.joy1l = or8((@ * 2) % 256, b2n(bit(j.input.buffer, 0))), !.joy2l = or8((@ * 2) % 256, b2n(read_data2(j.input)))]

RECURSIVE shift_rounds(_, _)
shift_rounds(j, round) == IF round = 16 THEN j ELSE shift_rounds(shift_in(j, round), round + 1)

\* read_input (lib.rs 271-296) for one port and its four registers
read_input(input, joy1l, joy1h, joy2l, joy2h) ==
    IF input.attached
    THEN shift_rounds([input |-> strobe(input), joy1l |-> joy1l, joy1h |-> joy1h, joy2l |-> joy2l, joy2h |-> joy2h], 0)
    ELSE [input |-> input, joy1l |-> joy1l, joy1h |-> 0, joy2l |-> joy2l, joy2h |-> 0]

\* the joypad auto-read at the entry of run (lib.rs 270-311)
joypad_read(e, port1, port2) ==
    [e EXCEPT !.joypad.input1 = port1.input, !.joypad.input2 = port2.input,
              !.cpu.joy1l = port1.joy1l, !.cpu.joy1h = port1.joy1h, !.cpu.joy2l = port1.joy2l, !.cpu.joy2h = port1.joy2h,
              !.cpu.joy3l = port2.joy1l, !.cpu.joy3h = port2.joy1h, !.cpu.joy4l = port2.joy2l, !.cpu.joy4h = port2.joy2h,
              !.cpu.hvbjoy_auto_joypad_read_busy_flag = FALSE]

auto_joypad_read(e) ==
    IF e.cpu.nmitimen_joypad_enable
    THEN joypad_read(e, read_input(e.joypad.input1, e.cpu.joy1l, e.cpu.joy1h, e.cpu.joy2l, e.cpu.joy2h),
                        read_input(e.joypad.input2, e.cpu.joy3l, e.cpu.joy3h, e.cpu.joy4l, e.cpu.joy4h))
    ELSE e

\* the host calls run: the joypads are read if auto-read is enabled
\* (lib.rs 270-311), the loop has not stepped yet and its first step
\* ignores breakpoints
RunCall ==
    /\ run_state = "idle"
    /\ ~Panicked(emu)
    /\ run_state' = "first"
    /\ result' = "None"
    /\ emu' = auto_joypad_read(emu)

\* one iteration of run's loop: a step, which ignores breakpoints if it is
\* the first; run returns "frame done" when the step finished the frame and
\* "breakpoint hit" when it hit a breakpoint, and loops otherwise
RunStep ==
    /\ run_state \in {"first", "running"}
    /\ emu.cpu.cycles < emu.host.deadline
    /\ \E ins \in emu.host.program : StepWith(ins, 0, run_state = "first")
    /\ run_state' = CASE result' = "FrameFinished" -> "frame done"
                      [] result' = "BreakpointHit" -> "breakpoint hit"
                      [] result' = "Aborted" -> "aborted"
                      [] OTHER -> "running"

NextRun == Step \/ RaiseInterrupt \/ RunCall \/ RunStep

InitRun ==
    /\ emu \in {Hosted([AtCycle(Booted("LoRom"), DotCycles(277, 224) - 12 * TimerLead, FALSE, FALSE) EXCEPT !.cpu.breakpoints = breakpoints],
                       InstrsRun, {INT_NMI}, TimerWindow) :
                  breakpoints \in {{}, {32768 + 3}}}
    /\ result = "None"
    /\ run_state = "idle"

SpecRun == InitRun /\ [][NextRun]_vars


---------------------------------------------------------------------------
(* run() with joypad auto-read enabled by a store to NMITIMEN: the ports   *)
(* hold joypads with some buttons pressed, or nothing, and the JOY         *)
(* registers hold what an earlier read left.                               *)

JoyStates == { {}, {"b"}, {"r", "a"}, {"y", "start", "down", "right", "x", "r"}, {"b", "y", "select", "start", "up", "down", "left", "right", "a", "x", "l", "r"} }

JoyInputs == {NoInput} \cup {[NoInput EXCEPT !.attached = TRUE, !.state = state, !.buffer = buffer] : state \in JoyStates, buffer \in {0, 65535}}

JoyLeft == {0, 255, 90}

InitJoy ==
    /\ \E input1 \in JoyInputs, input2 \in {NoInput, [NoInput EXCEPT !.attached = TRUE, !.state = {"select", "l"}]}, left \in JoyLeft :
          emu = Hosted([AtCycle([Booted("LoRom") EXCEPT !.cpu = Cpu_write(@, 16896, 1)], DotCycles(277, 224) - 12 * TimerLead, FALSE, FALSE)
                            EXCEPT !.joypad.input1 = input1, !.joypad.input2 = input2,
                                   !.cpu.joy1l = left, !.cpu.joy1h = left, !.cpu.joy2l = left, !.cpu.joy2h = left,
                                   !.cpu.joy3l = left, !.cpu.joy3h = left, !.cpu.joy4l = left, !.cpu.joy4h = left],
                       {<<234, 0, 0, 0>>}, {INT_NMI}, TimerWindow)
    /\ result = "None"
    /\ run_state = "idle"

SpecJoy == InitJoy /\ [][NextRun]_vars
---------------------------------------------------------------------------
(* The H/V-count IRQ: the program has written HTIME, VTIME and NMITIMEN a  *)
(* few dots before the counters reach the dot at which the condition it    *)
(* selected becomes true; NOP, WDM, CLI and a read of TIMEUP follow, and   *)
(* the host may raise NMI.  One program of NOPs and reads of TIMEUP runs    *)
(* on, undisturbed, for a whole line.                                      *)

\* the longest run covers a line of 340 dots and the dots around it
IrqWindow == 1400

\* the stores to HTIMEL, HTIMEH, VTIMEL, VTIMEH and NMITIMEN (bits 4-5:
\* the IRQ mode)
IrqSetup(mode, htime, vtime) ==
    << <<16903, htime % 256>>, <<16904, htime \div 256>>, <<16905, vtime % 256>>, <<16906, vtime \div 256>>, <<16896, 16 * mode>> >>

\* the IRQ mode, HTIME, VTIME and the dot (h, v) of the first frame at which
\* the H/V-count condition is expected: H-match at the middle, the start
\* and the end of a line; V-match at the first line of vertical blanking
\* and at line 0 (the line after the last, 261); H-and-V-match
IrqCases ==
    { [mode |-> 1, htime |-> 200, vtime |-> 511, h |-> 200, v |-> 10],
      [mode |-> 1, htime |-> 0, vtime |-> 511, h |-> 0, v |-> 11],
      [mode |-> 1, htime |-> 339, vtime |-> 511, h |-> 339, v |-> 10],
      [mode |-> 2, htime |-> 511, vtime |-> 225, h |-> 0, v |-> 225],
      [mode |-> 2, htime |-> 511, vtime |-> 0, h |-> 0, v |-> 262],
      [mode |-> 3, htime |-> 200, vtime |-> 10, h |-> 200, v |-> 10] }

InstrsIrq ==
    { <<234, 0, 0, 0>>,      \* NOP
      <<66, 0, 0, 0>>,       \* WDM
      <<88, 0, 0, 0>>,       \* CLI
      <<173, 17, 66, 0>> }   \* LDA $4211

\* the machine after the stores of case `c`, which end 12 * TimerLead + 6
\* cycles before the dot of the case
IrqMachine(c) ==
    settle(Booted("LoRom"),
           write_all(prepare(AtCycle(Booted("LoRom"), DotCycles(c.h, c.v) - 12 * (TimerLead + 3), FALSE, FALSE), <<234, 0, 0, 0>>, 0),
                     IrqSetup(c.mode, c.htime, c.vtime)))

\* the runs: every case with the whole program and NMI for a few dots, and
\* the H-match at the middle of the line with NOP and the read of TIMEUP,
\* undisturbed, for a line
IrqRuns ==
    {[c |-> c, program |-> InstrsIrq, lines |-> {INT_NMI}, window |-> TimerWindow] : c \in IrqCases}
    \cup {[c |-> c, program |-> {<<234, 0, 0, 0>>, <<173, 17, 66, 0>>}, lines |-> {}, window |-> IrqWindow] : c \in {d \in IrqCases : d.htime = 200 /\ d.mode = 1}}

InitIrq ==
    /\ emu \in {Hosted(IrqMachine(r.c), r.program, r.lines, r.window) : r \in IrqRuns}
    /\ result = "None"
    /\ run_state = "idle"

SpecIrq == InitIrq /\ [][Next]_vars


---------------------------------------------------------------------------
(* The APU mailbox (apu.rs 204-249, 892-900): the main CPU reaches the     *)
(* four ports through the bus at 0x2140-0x2143, the audio CPU's            *)
(* instructions through Apu::read and Apu::write at 0x00F4-0x00F7.  The    *)
(* audio CPU's program is taken as the reads and writes it performs; the   *)
(* two programs exchange bytes through two of the four ports and read all  *)
(* four.                                                                   *)

\* Apu::cpu_read_pure / cpu_read (205-211)
Apu_cpu_read(e, addr) == ret(e, e.apu.cpuio_out[addr - 8512 + 1])

\* Apu::cpu_write (213-215)
Apu_cpu_write(e, addr, value) == [e EXCEPT !.apu.cpuio_in[addr - 8512 + 1] = value]

\* Apu::reset (217-219)
Apu_reset(e) == [e EXCEPT !.apu.reset = TRUE]

\* the bytes of BOOT_ROM (apu.rs 8-15) that hold the reset vector
BOOT_ROM(i) == IF i = 62 THEN 192 ELSE IF i = 63 THEN 255 ELSE 0

\* Apu::read_pure / read (221-234)
Apu_read(e, addr) ==
    IF addr >= 244 /\ addr <= 247 THEN ret(e, e.apu.cpuio_in[addr - 244 + 1])
    ELSE IF addr >= 65472 /\ e.apu.rom_enable THEN ret(e, BOOT_ROM(addr - 65472))
    ELSE ret(e, mem_get(e.apu.ram, addr))

\* the variant that stores the audio CPU's byte in the register the audio
\* CPU reads
Apu_write_own(e, addr, value) ==
    IF addr >= 244 /\ addr <= 247 THEN [e EXCEPT !.apu.ram = mem_set(@, addr, value), !.apu.cpuio_in[addr - 244 + 1] = value]
    ELSE [e EXCEPT !.apu.ram = mem_set(@, addr, value)]

\* Apu::write (236-249)
Apu_write(e, addr, value) ==
    IF addr = 240 THEN Panic([e EXCEPT !.apu.ram = mem_set(@, addr, value)], "todo: APU test register")
    ELSE IF addr = 241 THEN [e EXCEPT !.apu.ram = mem_set(@, addr, value), !.apu.rom_enable = value >= 128]
    ELSE IF addr >= 244 /\ addr <= 247 THEN [e EXCEPT !.apu.ram = mem_set(@, addr, value), !.apu.cpuio_out[addr - 244 + 1] = value]
    ELSE [e EXCEPT !.apu.ram = mem_set(@, addr, value)]

\* the reset block of Apu::step (892-900)
Apu_step_reset(e) ==
    IF ~e.apu.reset THEN e
    ELSE [e EXCEPT !.apu.rom_enable = TRUE, !.apu.cpuio_in = <<0, 0, 0, 0>>, !.apu.cpuio_out = <<0, 0, 0, 0>>,
                   !.apu.pc = Apu_read([e EXCEPT !.apu.rom_enable = TRUE], 65535).v * 256 + Apu_read([e EXCEPT !.apu.rom_enable = TRUE], 65534).v,
                   !.apu.reset = FALSE]

\* the bytes the two sides write
MailValues == {0, 165}

\* the addresses the audio CPU's program reads: CONTROL and the four ports
ApuAddrs == {241, 244, 245, 246, 247}

\* the pairs of ports a program writes
PortPairs == {{0, 1}, {1, 2}, {2, 3}, {0, 3}}

\* the port an audio-CPU address names (0..3), or -1
PortOf(addr) == IF addr >= 244 /\ addr <= 247 THEN addr - 244 ELSE -1

\* the main CPU's store to 0x2140 + port (cpu.rs 751-754)
MainWrite ==
    /\ \E port \in emu.host.ports, value \in MailValues :
          emu' = [Apu_cpu_write(emu, resolve_addr(8512 + port, emu.cpu.mapping_mode).addr, value) EXCEPT
                     !.hist.mail.cpu[port + 1] = value,
                     !.gh.mail = <<[side |-> "cpu", op |-> "write", port |-> port, value |-> value]>>]
    /\ UNCHANGED <<result, run_state>>

\* the main CPU's load from 0x2140 + port (cpu.rs 698-703)
MainRead ==
    /\ \E port \in 0..3 :
          emu' = [Apu_cpu_read(emu, resolve_addr(8512 + port, emu.cpu.mapping_mode).addr) EXCEPT
                     !.gh.mail = <<[side |-> "cpu", op |-> "read", port |-> port, value |-> Apu_cpu_read(emu, resolve_addr(8512 + port, emu.cpu.mapping_mode).addr).v]>>]
    /\ UNCHANGED <<result, run_state>>

\* a store of the audio CPU's program
AudioWrite ==
    /\ \E addr \in {241} \cup {244 + port : port \in emu.host.ports}, value \in MailValues :
          emu' = [Apu_write(emu, addr, value) EXCEPT
                     !.hist.mail.apu = IF PortOf(addr) >= 0 THEN [@ EXCEPT ![PortOf(addr) + 1] = value] ELSE @,
                     !.gh.mail = <<[side |-> "apu", op |-> "write", port |-> PortOf(addr), value |-> value]>>]
    /\ UNCHANGED <<result, run_state>>

\* a load of the audio CPU's program
AudioRead ==
    /\ \E addr \in ApuAddrs :
          emu' = [Apu_read(emu, addr) EXCEPT
                     !.gh.mail = <<[side |-> "apu", op |-> "read", port |-> PortOf(addr), value |-> Apu_read(emu, addr).v]>>]
    /\ UNCHANGED <<result, run_state>>

\* the main CPU's reset handler resets the APU (cpu.rs 887), whose next
\* step clears the ports
AudioReset ==
    /\ emu' = [Apu_step_reset(Apu_reset(emu)) EXCEPT !.hist.mail = NoHistory.mail, !.gh.mail = <<>>]
    /\ UNCHANGED <<result, run_state>>

NextApu == MainWrite \/ MainRead \/ AudioWrite \/ AudioRead \/ AudioReset

InitApu ==
    /\ \E ports \in PortPairs : emu = [Hosted(Snes_new("LoRom"), {}, {}, 0) EXCEPT !.host.ports = ports]
    /\ result = "None"
    /\ run_state = "idle"

SpecApu == InitApu /\ [][NextApu]_vars

---------------------------------------------------------------------------
(* The PPU's VRAM and CGRAM ports: after the reset handler was entered, a  *)
(* program stores to VMAIN, VMADDL/H and VMDATAL, or stores to CGADD and   *)
(* CGDATA and loads from RDCGRAM, one bus access after the other.          *)

\* a VRAM program makes 4 bus accesses (6 master cycles each), a CGRAM
\* program 6
VramWindow == 22

CgramWindow == 34

\* VMAIN: no translation and the three translation modes, increment by 1
\* after VMDATAL
VmainValues == {0, 4, 8, 12}

\* the bytes of VMADD: bits 5, 6, 7 and bit 13
VmaddLow == {0, 32, 64, 128}

VmaddHigh == {0, 32}

VmaddValues == {h * 256 + l : h \in VmaddHigh, l \in VmaddLow}

\* the first and the last colour of CGRAM
CgIndexes == {0, 255}

\* a byte with bit 7 clear and a byte with bit 7 set
CgBytes == {52, 146}

VramStores == {<<8469, v>> : v \in VmainValues} \cup {<<8470, v>> : v \in VmaddLow} \cup {<<8471, v>> : v \in VmaddHigh} \cup {<<8472, 255>>}

CgramStores == {<<8481, v>> : v \in CgIndexes} \cup {<<8482, v>> : v \in CgBytes}

\* an access to a port as the program sees it, with the VRAM address the
\* PPU held when the access was made
PortAccess(e, op, addr, value) ==
    [op |-> op, addr |-> addr, value |-> value, vmadd |-> e.ppu.vmadd, mode |-> e.ppu.vmain_address_translation, word |-> translated_vram_word_address(e.ppu)]

\* a store of the program: write(emu, addr, value)
PortStore ==
    /\ run_state = "idle" /\ ~Panicked(emu) /\ emu.cpu.cycles < emu.host.deadline
    /\ \E s \in emu.host.stores :
          emu' = [settle(emu, write(prepare(emu, <<0, 0, 0, 0>>, 0), s[1], s[2])) EXCEPT !.hist.ports = Append(@, PortAccess(emu, "store", s[1], s[2]))]
    /\ UNCHANGED <<result, run_state>>

\* a load of the program: read(emu, addr)
PortLoad ==
    /\ run_state = "idle" /\ ~Panicked(emu) /\ emu.cpu.cycles < emu.host.deadline
    /\ \E addr \in emu.host.loads :
          emu' = [settle(emu, read(prepare(emu, <<0, 0, 0, 0>>, 0), addr)) EXCEPT !.hist.ports = Append(@, PortAccess(emu, "load", addr, read(prepare(emu, <<0, 0, 0, 0>>, 0), addr).v))]
    /\ UNCHANGED <<result, run_state>>

NextPpu == PortStore \/ PortLoad

InitPpu ==
    /\ emu \in { [Hosted(Booted("LoRom"), {}, {}, VramWindow) EXCEPT !.host.stores = VramStores],
                 [Hosted(Booted("LoRom"), {}, {}, CgramWindow) EXCEPT !.host.stores = CgramStores, !.host.loads = {8507}] }
    /\ result = "None"
    /\ run_state = "idle"

SpecPpu == InitPpu /\ [][NextPpu]_vars

---------------------------------------------------------------------------
(* The objects of a line (ppu.rs 872-970): catch_up prepares the objects   *)
(* of line y when it reaches the first dot of the line.                    *)

\* the (width, height) of the small and of the large objects (873-882)
sizes(selection) ==
    CASE selection = 0 -> << <<8, 8>>, <<16, 16>> >>
      [] selection = 1 -> << <<8, 8>>, <<32, 32>> >>
      [] selection = 2 -> << <<8, 8>>, <<64, 64>> >>
      [] selection = 3 -> << <<16, 16>>, <<32, 32>> >>
      [] selection = 4 -> << <<16, 16>>, <<32, 32>> >>
      [] selection = 5 -> << <<32, 32>>, <<64, 64>> >>
      [] selection = 6 -> << <<16, 32>>, <<32, 64>> >>
      [] OTHER -> << <<16, 32>>, <<32, 32>> >>

\* `self.oam[512 + i / 4] >> (i % 4 * 2)` (891)
flags2(ppu, i) == ppu.oam[512 + i \div 4] \div 2 ^ ((i % 4) * 2)

\* the fields of object i (889-903)
object(ppu, i) ==
    [ obj_x |-> ppu.oam[i * 4] + 256 * (flags2(ppu, i) % 2),
      obj_y |-> ppu.oam[i * 4 + 1],
      tile_number |-> ppu.oam[i * 4 + 2],
      name_table |-> ppu.oam[i * 4 + 3] % 2,
      palette |-> (ppu.oam[i * 4 + 3] \div 2) % 8,
      priority |-> (ppu.oam[i * 4 + 3] \div 16) % 4,
      x_flip |-> bit(ppu.oam[i * 4 + 3], 6),
      y_flip |-> bit(ppu.oam[i * 4 + 3], 7),
      width |-> sizes(ppu.obsel_size_selection)[((flags2(ppu, i) \div 2) % 2) + 1][1],
      height |-> sizes(ppu.obsel_size_selection)[((flags2(ppu, i) \div 2) % 2) + 1][2] ]

\* `in_range_y && in_range_x` (905-909)
in_range(o, y) == (y + 256 - o.obj_y) % 256 < o.height /\ (o.obj_x > 511 - o.width \/ o.obj_x <= 255)

\* tilemap_addr before it is reduced to a u16 (925-929)
tilemap_addr(ppu, o) == ppu.obsel_base_address * 8192 + (IF o.name_table = 1 THEN 4096 + ppu.obsel_gap * 4096 ELSE 0)

\* y_off (931-934)
y_off(o, y) == IF o.y_flip THEN o.height - 1 - ((y + 256 - o.obj_y) % 256) ELSE (y + 256 - o.obj_y) % 256

\* tile_row | tile_col in the round `col` of the loop over the tiles
\* (936-939, 965)
tile_index(o, y, col) == (((o.tile_number \div 16) * 16 + (y_off(o, y) \div 8) * 16) % 256) + ((o.tile_number + col) % 16)

\* the tile emitted in round `col` (947-962)
object_tile(o, y, base, col) ==
    [ x |-> (o.obj_x + (IF o.x_flip THEN o.width - 8 - 8 * col ELSE 8 * col)) % 512,
      tile_y_off |-> ((y + 256 - o.obj_y) % 256) % 8,
      tile_addr |-> ((base + tile_index(o, y, col) * 16) % 65536) % 32768,
      x_flip |-> o.x_flip, y_flip |-> o.y_flip, palette |-> o.palette, priority |-> o.priority ]

\* the loop over the tiles of an object (941-966)
RECURSIVE object_tiles(_, _, _, _, _)
object_tiles(o, y, base, col, acc) ==
    IF 8 * col >= o.width THEN acc
    ELSE IF acc.num_tiles >= 34 THEN [acc EXCEPT !.stat77 = set_bit(@, 7)]
    ELSE object_tiles(o, y, base, col + 1, [acc EXCEPT !.tiles = Append(@, object_tile(o, y, base, col)), !.num_tiles = @ + 1])

\* one round of the loop over the objects (888-967)
visit_object(ppu, y, i, o, acc, overflow_checks) ==
    IF ~in_range(o, y) THEN acc
    ELSE IF acc.num_objects + 1 > 32 THEN [acc EXCEPT !.num_objects = @ + 1, !.stat77 = set_bit(@, 6), !.stop = TRUE]
    ELSE IF acc.num_tiles >= 34 THEN [acc EXCEPT !.num_objects = @ + 1, !.kept = @ \cup {i}, !.stat77 = set_bit(@, 7)]
    ELSE IF tilemap_addr(ppu, o) > 65535 /\ overflow_checks THEN [acc EXCEPT !.num_objects = @ + 1, !.panic = TRUE, !.stop = TRUE]
    ELSE object_tiles(o, y, tilemap_addr(ppu, o) % 65536, 0, [acc EXCEPT !.num_objects = @ + 1, !.kept = @ \cup {i}])

\* the loop over the objects lo .. hi - 1 (888), one half of the objects
\* after the other; after `break` the rounds that remain are not made
RECURSIVE objects_from(_, _, _, _, _, _)
objects_after(ppu, y, lo, hi, acc, overflow_checks) ==
    IF acc.stop THEN acc ELSE objects_from(ppu, y, lo, hi, acc, overflow_checks)

objects_from(ppu, y, lo, hi, acc, overflow_checks) ==
    IF hi = lo + 1 THEN visit_object(ppu, y, lo, object(ppu, lo), acc, overflow_checks)
    ELSE objects_after(ppu, y, (lo + hi) \div 2, hi, objects_from(ppu, y, lo, (lo + hi) \div 2, acc, overflow_checks), overflow_checks)

\* the end of the prepass (969)
objects_prepared(e, y, acc) ==
    IF acc.panic THEN Panic(e, "attempt to add with overflow")
    ELSE [e EXCEPT !.ppu.stat77 = acc.stat77, !.ppu.current_object_tiles = acc.tiles, !.ppu.current_object_tiles_len = acc.num_tiles,
                   !.gh.prepass = <<[y |-> y, kept |-> acc.kept]>>]

\* Ppu::prepare_objects (872-970)
prepare_objects(e, y) ==
    objects_prepared(e, y, objects_from(e.ppu, y, 0, 128, [num_objects |-> 0, num_tiles |-> 0, stat77 |-> e.ppu.stat77, tiles |-> <<>>, kept |-> {}, stop |-> FALSE, panic |-> FALSE], e.build.overflow_checks))

\* the line the objects of OAM stand on, and the line of the objects that
\* are not used
ObjLine == 100

OffLine == 240

\* the number of objects on ObjLine: five (40 tiles of 64 dots), 17 and 18
\* (34 and 36 tiles of 16 dots), 32 and 33
ObjCounts == {5, 17, 18, 32, 33}

\* the X of the objects: on the screen, off the screen, and over the left
\* edge
ObjXs == {0, 300, 508}

\* the attributes of the objects: none; both flips and the second name
\* table
ObjFlags == {0, 193}

\* OBSEL: sizes 8/16, base 0; sizes 8/64; sizes 8/64 with base 7 and gap
\* 3; sizes 32/64
ObselValues == {0, 64, 95, 160}

\* the lines prepared: the first, the 9th and the 64th line of the objects
PrepLines == {ObjLine, ObjLine + 8, ObjLine + 63}

\* the two bits object i has in the high table of OAM
HighBits(i, count, x, large) == IF i < count THEN (x \div 256) + 2 * large ELSE 0

\* OAM with `count` objects at (x, ObjLine), tile 0x1F, of the small or of
\* the large size, and the other objects on OffLine
OamWith(count, x, flags1, large) ==
    [a \in 0..543 |->
        IF a < 512 THEN (IF a \div 4 < count THEN <<x % 256, ObjLine, 31, flags1>>[(a % 4) + 1] ELSE <<0, OffLine, 0, 0>>[(a % 4) + 1])
        ELSE HighBits(4 * (a - 512), count, x, large) + 4 * HighBits(4 * (a - 512) + 1, count, x, large)
             + 16 * HighBits(4 * (a - 512) + 2, count, x, large) + 64 * HighBits(4 * (a - 512) + 3, count, x, large)]

\* the program's store to OBSEL
ObselStore ==
    /\ run_state = "idle" /\ ~Panicked(emu)
    /\ \E value \in ObselValues : emu' = settle(emu, Ppu_write(prepare(emu, <<0, 0, 0, 0>>, 0), 8449, value))
    /\ UNCHANGED <<result, run_state>>

\* catch_up reaches the first dot of line y (ppu.rs 1517-1519)
PrepareObjects ==
    /\ run_state = "idle" /\ ~Panicked(emu)
    /\ \E y \in PrepLines :
          emu' = [settle(emu, prepare_objects(prepare(emu, <<0, 0, 0, 0>>, 0), y)) EXCEPT !.gh.prepass = IF @ = <<>> THEN <<[y |-> y, kept |-> {}]>> ELSE @]
    /\ UNCHANGED <<result, run_state>>

NextObj == ObselStore \/ PrepareObjects

InitObj ==
    /\ \E count \in ObjCounts, x \in ObjXs, flags1 \in ObjFlags, large \in {0, 1}, overflow_checks \in BOOLEAN :
          emu = [Hosted(Booted("LoRom"), {}, {}, 0) EXCEPT !.ppu.oam = OamWith(count, x, flags1, large), !.build.overflow_checks = overflow_checks]
    /\ result = "None"
    /\ run_state = "idle"

SpecObj == InitObj /\ [][NextObj]_vars

---------------------------------------------------------------------------
(* The functions of the core that depend on their arguments alone, applied *)
(* to arguments drawn from the sets below; the function, its arguments and *)
(* what it returned are kept in emu.gh.applied.                            *)

\* the banks of the system area (bank & 0x7F < 0x40), a cartridge bank and
\* a WRAM bank
BusBanks == {0, 63, 128, 191, 64, 126}

\* the first and the last offset of every arm of resolve_addr (626-644)
BusOffsets ==
    { 0, 8191, 8192, 8447, 8448, 8511, 8512, 8513, 8514, 8515, 8516, 8519, 8572, 8575, 8576, 8579, 8580, 8703, 8704, 16383,
      16384, 16405, 16406, 16407, 16408, 16895, 16896, 16909, 16910, 16911, 16912, 16927, 16928, 17151, 17152, 17279,
      17280, 24575, 24576, 65535 }

\* resolve_addr(addr, mapping_mode) of a bus access
Resolve ==
    /\ emu.gh.applied = <<>>
    /\ \E bank \in BusBanks, offset \in BusOffsets :
          emu' = [emu EXCEPT !.gh = [NoGhost EXCEPT !.applied = <<[f |-> "resolve_addr", addr |-> bank * 65536 + offset,
                                                                  to |-> resolve_addr(bank * 65536 + offset, emu.cpu.mapping_mode)]>>]]
    /\ UNCHANGED <<result, run_state>>

\* the status registers: every value of the nine flags
AllFlags == [c : BOOLEAN, z : BOOLEAN, i : BOOLEAN, d : BOOLEAN, xb : BOOLEAN, m : BOOLEAN, v : BOOLEAN, n : BOOLEAN, e : BOOLEAN]

\* the registers a byte is loaded into
LoadedFlags == {Flags_default, [c |-> TRUE, z |-> TRUE, i |-> TRUE, d |-> TRUE, xb |-> FALSE, m |-> FALSE, v |-> TRUE, n |-> TRUE, e |-> FALSE], [Flags_default EXCEPT !.e = FALSE, !.n = TRUE]}

\* the status register p is pushed (to_bits, as PHP does) and the byte is
\* pulled into the status register, which holds q by then (set_from_bits,
\* as PLP does)
PushPull ==
    /\ emu.gh.applied = <<>>
    /\ \E p \in AllFlags, q \in LoadedFlags :
          emu' = [emu EXCEPT !.gh = [NoGhost EXCEPT !.applied = <<[f |-> "to_bits", p |-> p, bits |-> to_bits(p), q |-> q, to |-> set_from_bits(q, to_bits(p))]>>]]
    /\ UNCHANGED <<result, run_state>>

\* the byte `bits` is pulled into the status register q and the register is
\* pushed
PullPush ==
    /\ emu.gh.applied = <<>>
    /\ \E bits \in 0..255, q \in LoadedFlags :
          emu' = [emu EXCEPT !.gh = [NoGhost EXCEPT !.applied = <<[f |-> "set_from_bits", q |-> q, bits |-> bits, to |-> set_from_bits(q, bits), pushed |-> to_bits(set_from_bits(q, bits))]>>]]
    /\ UNCHANGED <<result, run_state>>

\* the banks and pages of a pointer, and the offsets around the end of a
\* page and of a bank
PointerBanks == {0, 1, 126, 127, 254, 255}

PointerOffsets == {0, 254, 255, 256, 511, 65279, 65534, 65535}

\* the pointer of a 16-bit operand: Pointer::new16 for an operand in bank
\* hh (bank wrap), Pointer::new8 for an operand in page mm of bank 0 (the
\* direct page with E = 1 and DL = 0, read_pointer 1010, 1026, 1038)
PointerNew ==
    /\ emu.gh.applied = <<>>
    /\ \E hh \in PointerBanks, mmll \in PointerOffsets :
          \/ emu' = [emu EXCEPT !.gh = [NoGhost EXCEPT !.applied = <<[f |-> "Pointer::new16", hh |-> hh, mmll |-> mmll, to |-> Pointer_new16(hh, mmll)]>>]]
          \/ emu' = [emu EXCEPT !.gh = [NoGhost EXCEPT !.applied = <<[f |-> "Pointer::new8", hh |-> 0, mmll |-> hh * 256 + (mmll % 256), to |-> Pointer_new8(0, hh, mmll % 256)]>>]]
    /\ UNCHANGED <<result, run_state>>

\* the mask of a layer in the window mask (WINDOW_OBJ .. WINDOW_MATH, ppu.rs
\* 130-135), and the bit of a layer in TM, TS, TMW and TSW (LAYER_BG1 ..
\* LAYER_OBJ, 204-208)
WINDOW_OBJ == 1
WINDOW_BG1 == 2
WINDOW_BG2 == 4
WINDOW_BG3 == 8
WINDOW_BG4 == 16
WINDOW_MATH == 32
LAYER_BG1 == 0
LAYER_BG2 == 1
LAYER_BG3 == 2
LAYER_BG4 == 3
LAYER_OBJ == 4

\* render_pixel 983-984: designation & !(window & block)
enabled_layers(designation, window, block) == and8(designation, 255 - and8(window, block))

\* compute_window_mask (1082-1111), bit by bit: w1 and w2 are 0xFF inside
\* the window, and-ed with the enable bits and xor-ed with the inversion
\* bits; each layer's bit combines them by the layer's logic (0 or, 1 and,
\* 2 xor, 3 xnor; logic[k] is that of the layer with window bit k)
compute_window_mask(windows, x, hpseudo512) ==
    LET pos == (IF hpseudo512 THEN x \div 2 ELSE x) % 256
        inside_w1 == ~(pos < windows.window1_left \/ pos > windows.window1_right)
        inside_w2 == ~(pos < windows.window2_left \/ pos > windows.window2_right)
        w1(k) == (inside_w1 /\ bit(windows.w1en, k)) # bit(windows.w1inv, k)
        w2(k) == (inside_w2 /\ bit(windows.w2en, k)) # bit(windows.w2inv, k)
        r(k) == CASE windows.logic[k] = 0 -> w1(k) \/ w2(k)
                  [] windows.logic[k] = 1 -> w1(k) /\ w2(k)
                  [] windows.logic[k] = 2 -> w1(k) # w2(k)
                  [] OTHER -> w1(k) = w2(k)
        w(k) == IF r(k) THEN 2 ^ k ELSE 0
    IN w(0) + w(1) + w(2) + w(3) + w(4) + w(5)

\* the window registers a program has written (W12SEL, W34SEL, WOBJSEL: the
\* enable and inversion bits of window 1 and 2 per layer; WH0-WH3; WBGLOG,
\* WOBJLOG) and the designations TM, TS, TMW, TSW
WindowSettings ==
    { [window1_left |-> 64, window1_right |-> 191, window2_left |-> 128, window2_right |-> 255,
       w1en |-> w1en, w2en |-> w2en, w1inv |-> w1inv, w2inv |-> 0, logic |-> [k \in 0..5 |-> logic]]
        : w1en \in {0, 1, 2, 16, 63}, w2en \in {0, 4}, w1inv \in {0, 2}, logic \in {0, 2} }

Designations == {0, 1, 16, 17, 31}

\* the layers render_pixel selects the colours of the main and of the sub
\* screen from, at the pixel x of a line
RenderPixel ==
    /\ emu.gh.applied = <<>>
    /\ \E windows \in WindowSettings, x \in {10, 100, 200}, tm \in Designations, tmw \in Designations :
          emu' = [emu EXCEPT !.gh = [NoGhost EXCEPT !.applied =
                     <<[f |-> "render_pixel", tm |-> tm, ts |-> 31 - tm, tmw |-> tmw, tsw |-> 31,
                        window |-> compute_window_mask(windows, x, FALSE),
                        main_layers |-> enabled_layers(tm, compute_window_mask(windows, x, FALSE), tmw),
                        sub_layers |-> enabled_layers(31 - tm, compute_window_mask(windows, x, FALSE), 31)]>>]]
    /\ UNCHANGED <<result, run_state>>

\* the cartridge ROMs: their lengths in bytes, among them an empty file, a
\* length that is no power of two and one of a single byte
RomLens == {0, 1, 2, 3, 32768, 49152}

\* the byte a cartridge holds at `index`: never 0
RomByte(index) == (index % 255) + 1

\* the banks that hold cartridge ROM, SRAM and WRAM, and the first and last
\* offset of their parts
CartBanks == {0, 63, 64, 111, 112, 125, 126, 127, 128, 191, 192, 240, 253, 254, 255}

CartOffsets == {0, 8191, 24575, 24576, 32767, 32768, 49152, 65535}

RECURSIVE bit_length(_)
\* usize::BITS - n.leading_zeros()
bit_length(n) == IF n = 0 THEN 0 ELSE 1 + bit_length(n \div 2)

\* the index `(device_addr as usize) & !0 >> (emu.rom.len() - 1).leading_zeros()`
\* of a ROM of `len` bytes (cpu.rs 719-720); -1 where the subtraction or the
\* shift overflows in a build that checks it, where it wraps in one that
\* does not
rom_index(len, device_addr, overflow_checks) ==
    IF len <= 1 THEN (IF overflow_checks THEN -1 ELSE device_addr)
    ELSE device_addr % (2 ^ bit_length(len - 1))

\* `emu.rom.get(wrapped).copied().unwrap_or(0)` (721)
rom_get(len, index) == IF index < len THEN RomByte(index) ELSE 0

\* a bus read of a cartridge or work RAM address: resolve_addr, and for the
\* ROM the index and the byte
RomRead ==
    /\ emu.gh.applied = <<>>
    /\ \E bank \in CartBanks, offset \in CartOffsets, len \in RomLens :
          LET to == resolve_addr(bank * 65536 + offset, emu.cpu.mapping_mode)
              index == rom_index(len, to.addr, emu.build.overflow_checks)
          IN  emu' = [emu EXCEPT !.gh = [NoGhost EXCEPT
                         !.panic = IF to.device = "Rom" /\ index < 0 THEN "attempt to subtract or shift with overflow" ELSE "none",
                         !.applied = <<[f |-> "read", addr |-> bank * 65536 + offset, len |-> len, to |-> to,
                                        index |-> IF to.device = "Rom" THEN index ELSE 0,
                                        value |-> IF to.device = "Rom" /\ index >= 0 THEN rom_get(len, index) ELSE 0]>>]]
    /\ UNCHANGED <<result, run_state>>

NextFn == Resolve \/ PushPull \/ PullPush \/ PointerNew \/ RenderPixel \/ RomRead

InitFn ==
    /\ \E mapping_mode \in {"LoRom", "HiRom"} : emu = Hosted(Booted(mapping_mode), {}, {}, 0)
    /\ result = "None"
    /\ run_state = "idle"

SpecFn == InitFn /\ [][NextFn]_vars

---------------------------------------------------------------------------
(* ADC: a program of ADC #imm instructions, one step each, on a machine    *)
(* whose accumulator, carry and decimal flag earlier instructions set;     *)
(* in emulation mode (8-bit accumulator) and in native mode with a 16-bit  *)
(* accumulator.                                                            *)

AdcWindow == 12

\* the bytes whose nibbles are both decimal digits
BcdBytes == {16 * tens + ones : tens \in 0..9, ones \in 0..9}

AdcOperands == BcdBytes \cup {10, 127, 128, 255}

InstrsAdc == {<<105, value, 153, 0>> : value \in AdcOperands}

NextAdc == Step

InitAdc ==
    /\ \E a \in AdcOperands, c \in BOOLEAN, d \in BOOLEAN, wide \in BOOLEAN :
          /\ (wide \/ ~d) => a \in {21, 153, 255}
          /\ emu = Hosted([Booted("LoRom") EXCEPT !.cpu.regs.a = IF wide THEN 256 * a + a ELSE a, !.cpu.regs.p.c = c, !.cpu.regs.p.d = d,
                                                  !.cpu.regs.p.e = ~wide, !.cpu.regs.p.m = ~wide],
                          InstrsAdc, {}, AdcWindow)
    /\ result = "None"
    /\ run_state = "idle"

SpecAdc == InitAdc /\ [][NextAdc]_vars

---------------------------------------------------------------------------
(* A frame in overscan mode.  The program set the overscan bit of SETINI   *)
(* and has run to the end of line 261 with the PPU caught up (by the store *)
(* to SETINI); NOP, WDM and a read of SLHV (0x2137, a PPU port) follow,    *)
(* and the host may raise Reset, which clears the overscan bit.  The       *)
(* second machine is the first a frame later: the Reset came while the     *)
(* timer was in line 262, which the PPU, catching up afterwards, took for  *)
(* the end of the frame, so that it is a line ahead of the timer, which    *)
(* stands a few dots before the end-of-frame dot (277, 224).               *)

SyncWindow == 37

InstrsSync ==
    { <<234, 0, 0, 0>>,      \* NOP
      <<66, 0, 0, 0>>,       \* WDM
      <<173, 55, 33, 0>> }   \* LDA $2137

InitSync ==
    /\ emu \in { Hosted(AtCycle(Ppu_write(Booted("LoRom"), 8499, 4), DotCycles(337, 261), FALSE, TRUE), InstrsSync, {INT_RESET}, SyncWindow),
                 Hosted([AtCycle(Booted("LoRom"), DotCycles(277, 224) - 12 * TimerLead, FALSE, TRUE) EXCEPT !.ppu.vpos = @ + 1],
                        InstrsSync, {INT_RESET}, SyncWindow) }
    /\ result = "None"
    /\ run_state = "idle"

SpecSync == InitSync /\ [][Next]_vars

---------------------------------------------------------------------------
(* The audio CPU's catch-up (apu.rs 891-908, 1187-1189, 1200-1206).  The   *)
(* main CPU runs for a while and then catches the audio CPU up, as every   *)
(* access to an APU port and every end of frame does; the audio CPU's      *)
(* program is NOP, SLEEP and STOP.  run_state is "catching" while          *)
(* catch_up is in its loop.                                                *)

CatchWindow == 96

\* the opcodes of the audio CPU's program: NOP, SLEEP, STOP
AudioOps == {0, 239, 255}

\* the variant in which a stopped audio CPU still counts its cycles
Apu_step_counting(e, opcode) ==
    IF Apu_step_reset(e).apu.stopped THEN [Apu_step_reset(e) EXCEPT !.apu.cycles = @ + 24]
    ELSE [Apu_step_reset(e) EXCEPT !.apu.cycles = @ + 24, !.apu.pc = (@ + 1) % 65536, !.apu.stopped = opcode \in {239, 255}]

\* Apu::step (891-908, 1187-1189) with `opcode` at the program counter
Apu_step(e, opcode) ==
    IF Apu_step_reset(e).apu.stopped THEN Apu_step_reset(e)
    ELSE [Apu_step_reset(e) EXCEPT !.apu.cycles = @ + 24, !.apu.pc = (@ + 1) % 65536, !.apu.stopped = opcode \in {239, 255}]

\* the main CPU executes: six more master cycles
MainRun ==
    /\ run_state = "idle"
    /\ emu.cpu.cycles < emu.host.deadline
    /\ emu' = [emu EXCEPT !.cpu.cycles = @ + 6]
    /\ UNCHANGED <<result, run_state>>

\* the main CPU's reset handler resets the APU (cpu.rs 887)
MainReset ==
    /\ run_state = "idle"
    /\ emu' = Apu_reset(emu)
    /\ UNCHANGED <<result, run_state>>

\* apu::catch_up is called
CatchUpCall ==
    /\ run_state = "idle"
    /\ run_state' = "catching"
    /\ UNCHANGED <<emu, result>>

\* an iteration of its loop (1203-1205)
CatchUpStep ==
    /\ run_state = "catching"
    /\ emu.apu.cycles < emu.cpu.cycles
    /\ \E opcode \in AudioOps : emu' = Apu_step(emu, opcode)
    /\ UNCHANGED <<result, run_state>>

\* the loop ends and catch_up returns
CatchUpReturn ==
    /\ run_state = "catching"
    /\ emu.apu.cycles >= emu.cpu.cycles
    /\ run_state' = "idle"
    /\ UNCHANGED <<emu, result>>

NextCatch == MainRun \/ MainReset \/ CatchUpCall \/ CatchUpStep \/ CatchUpReturn

InitCatch ==
    /\ emu = Hosted(Booted("LoRom"), {}, {}, CatchWindow)
    /\ result = "None"
    /\ run_state = "idle"

\* catch_up runs to its end unless it cannot take a step
SpecCatch == InitCatch /\ [][NextCatch]_vars /\ WF_vars(CatchUpStep) /\ WF_vars(CatchUpReturn)
---------------------------------------------------------------------------
(* Waiting and halting: NOP, CLI, WAI and STP after power-on (I is set),   *)
(* with Reset, NMI and IRQ raised by the host.                             *)

\* a few instructions before and after the wait
WaitWindow == 48

InstrsWait ==
    { <<234, 0, 0, 0>>,      \* NOP
      <<88, 0, 0, 0>>,       \* CLI
      <<203, 0, 0, 0>>,      \* WAI
      <<219, 0, 0, 0>> }     \* STP

InitWait ==
    /\ emu = Hosted(Booted("LoRom"), InstrsWait, {INT_RESET, INT_NMI, INT_IRQ}, WaitWindow)
    /\ result = "None"
    /\ run_state = "idle"

SpecWait == InitWait /\ [][Next]_vars

---------------------------------------------------------------------------
(* Handlers: CLI, SED, XCE, BRK, COP and RTI after power-on, in emulation  *)
(* and in native mode, with NMI and IRQ raised by the host.                *)

\* a change of mode, an entry, and the instructions of a handler
EntryWindow == 72

InstrsEntry ==
    { <<88, 0, 0, 0>>,       \* CLI
      <<226, 8, 0, 0>>,      \* SEP #$08
      <<251, 0, 0, 0>>,      \* XCE
      <<0, 0, 0, 0>>,        \* BRK
      <<2, 0, 0, 0>>,        \* COP
      <<64, 0, 0, 0>> }      \* RTI

InitEntry ==
    /\ emu = Hosted(Booted("LoRom"), InstrsEntry, {INT_NMI, INT_IRQ}, EntryWindow)
    /\ result = "None"
    /\ run_state = "idle"

SpecEntry == InitEntry /\ [][Next]_vars

---------------------------------------------------------------------------
(* The stack in emulation mode: the stack pointer is set to the first and   *)
(* to the last byte of page 1 (LDX, TXS), and PHP, PLP and PEA follow, with *)
(* NMI raised by the host.                                                  *)

StackWindow == 48

InstrsStack ==
    { <<162, 0, 0, 0>>,      \* LDX #$00
      <<162, 255, 0, 0>>,    \* LDX #$FF
      <<154, 0, 0, 0>>,      \* TXS
      <<8, 0, 0, 0>>,        \* PHP
      <<40, 0, 0, 0>>,       \* PLP
      <<244, 207, 18, 0>> }  \* PEA $12CF

InitStack ==
    /\ emu = Hosted(Booted("LoRom"), InstrsStack, {INT_NMI}, StackWindow)
    /\ result = "None"
    /\ run_state = "idle"

SpecStack == InitStack /\ [][Next]_vars

---------------------------------------------------------------------------
(* The transfer units of a general DMA: channel 0 moves UnitBytes0 bytes    *)
(* with each of the eight unit selectors, from the stack page to the WRAM   *)
(* port (0x2180-0x2183) or to the last B address (0x21FF), or with          *)
(* selector 2 from the WRAM port to the stack page; channel 1 follows with  *)
(* UnitBytes1 bytes of unit 1.                                              *)

UnitBytes0 == 5

UnitBytes1 == 3

UnitWindow == 120

\* the stores to DMAPx, BBADx, A1TxL, A1TxH, A1Bx, DASxL and DASxH
UnitSetup(ch, dmap, bbad, a1t, das) ==
    << <<17152 + 16 * ch, dmap>>, <<17153 + 16 * ch, bbad>>, <<17154 + 16 * ch, getl(a1t)>>, <<17155 + 16 * ch, geth(a1t)>>,
       <<17156 + 16 * ch, 0>>, <<17157 + 16 * ch, getl(das)>>, <<17158 + 16 * ch, geth(das)>> >>

UnitSetups ==
    { UnitSetup(0, dmap, bbad, 510, UnitBytes0) \o UnitSetup(1, 1, 128, 496, UnitBytes1) \o << <<16907, 3>> >> :
        dmap \in 0..7, bbad \in {128, 255} }
    \cup { UnitSetup(0, 130, 128, 510, UnitBytes0) \o UnitSetup(1, 1, 128, 496, UnitBytes1) \o << <<16907, 3>> >> }

InitUnit ==
    /\ emu \in {Hosted(settle(Booted("LoRom"), write_all(prepare(Booted("LoRom"), <<234, 0, 0, 0>>, 0), setup)), {<<234, 0, 0, 0>>}, {INT_NMI}, UnitWindow) :
                  setup \in UnitSetups}
    /\ result = "None"
    /\ run_state = "idle"

SpecUnit == InitUnit /\ [][Next]_vars

---------------------------------------------------------------------------
(* The V-blank NMI flag of RDNMI: the machine at the end of line 1, before  *)
(* the timer clears the flag, and in the middle of line 100, with the flag *)
(* set by a Reset and not read since; the program reads RDNMI, TIMEUP,     *)
(* HVBJOY and JOY1L.                                                       *)

FlagWindow == 48

InstrsFlag ==
    { <<234, 0, 0, 0>>,      \* NOP
      <<173, 16, 66, 0>>,    \* LDA $4210
      <<173, 17, 66, 0>>,    \* LDA $4211
      <<173, 18, 66, 0>>,    \* LDA $4212
      <<173, 24, 66, 0>> }   \* LDA $4218

InitFlag ==
    /\ emu \in {Hosted(AtCycle(Booted("LoRom"), DotCycles(hv[1], hv[2]) - 12 * TimerLead, enable, TRUE), InstrsFlag, {INT_NMI}, FlagWindow) :
                  hv \in {<<338, 1>>, <<101, 100>>}, enable \in BOOLEAN}
    /\ result = "None"
    /\ run_state = "idle"

SpecFlag == InitFlag /\ [][Next]_vars

---------------------------------------------------------------------------
(* run() called again after it returned: the debugger holds breakpoints at *)
(* the second and third byte of a program of NOP and WDM, and calls run    *)
(* again when run has reported a breakpoint or the end of the frame.       *)

BreakWindow == 96

BreakpointSets == { {32768 + 1}, {32768 + 1, 32768 + 2}, {32768 + 2, 32768 + 4} }

\* the host calls run again after run returned: `result` is what the last
\* step of the run before returned, and hist.resumed that a run has followed
\* a breakpoint
RunAgain ==
    /\ run_state \in {"breakpoint hit", "frame done"}
    /\ emu.cpu.cycles < emu.host.deadline
    /\ run_state' = "first"
    /\ emu' = [auto_joypad_read(emu) EXCEPT !.hist.resumed = @ \/ run_state = "breakpoint hit"]
    /\ UNCHANGED result

NextBreak == Step \/ RaiseInterrupt \/ RunCall \/ RunStep \/ RunAgain

InitBreak ==
    /\ emu \in {Hosted([AtCycle(Booted("LoRom"), DotCycles(277, 224) - 12 * TimerLead, FALSE, FALSE) EXCEPT !.cpu.breakpoints = breakpoints],
                       {<<234, 0, 0, 0>>, <<66, 0, 0, 0>>}, {INT_NMI}, BreakWindow) :
                  breakpoints \in BreakpointSets}
    /\ result = "None"
    /\ run_state = "idle"

SpecBreak == InitBreak /\ [][NextBreak]_vars

---------------------------------------------------------------------------
(* Properties of the main specification.                                   *)

\* a step has been made and it returned
Completed == result \in {"Stepped", "FrameFinished", "BreakpointHit"}

\* C1: in every state reached after an instruction completes with the
\* emulation flag E = 1, the CPU has M = 1, XB = 1, the high byte of S equal
\* to 1 and the high bytes of X and Y equal to 0
C1_EmulationModeRegisters ==
    (Completed /\ emu.cpu.regs.p.e) =>
        /\ emu.cpu.regs.p.m
        /\ emu.cpu.regs.p.xb
        /\ geth(emu.cpu.regs.s) = 1
        /\ geth(emu.cpu.regs.x) = 0
        /\ geth(emu.cpu.regs.y) = 0

\* C1's case: in emulation mode, TXS has moved a non-zero X into S
C1_Witness ==
    /\ Completed
    /\ emu.cpu.regs.p.e
    /\ emu.gh.opcode = 154
    /\ emu.cpu.regs.x = 255
    /\ emu.cpu.regs.s = 511

\* C2: in every state reached after an instruction completes with XB = 1,
\* in native or emulation mode, the high bytes of X and Y are 0
C2_IndexHighBytes ==
    (Completed /\ emu.cpu.regs.p.xb) => (geth(emu.cpu.regs.x) = 0 /\ geth(emu.cpu.regs.y) = 0)

\* C2's case: in native mode, SEP has set XB while X held a 16-bit value
C2_Witness ==
    /\ Completed
    /\ ~emu.cpu.regs.p.e
    /\ emu.gh.opcode = 226
    /\ emu.gh.index_wide
    /\ emu.cpu.regs.p.xb
    /\ emu.cpu.regs.x = 255

\* C3: no call of step aborts: every step completes and returns a result
C3_StepNeverAborts == result # "Aborted"

\* C4: an access to an address that resolves to no device does not abort
\* the step (the read returns the MDR, the write is dropped)
C4_OpenBusIsHarmless == emu.gh.open_bus => result # "Aborted"


---------------------------------------------------------------------------
(* Properties of the interrupt specification.                              *)

\* the pending interrupts that the I flag does not mask
Unmasked(cpu) == {j \in Interrupts : bit(cpu.pending_interrupts, j) /\ ~(j = INT_IRQ /\ cpu.regs.p.i /\ ~cpu.waiting)}

\* the interrupt of highest priority (Reset > NMI > Abort > IRQ > COP > BRK)
Highest(S) == CHOOSE j \in S : \A k \in S : j <= k

\* C5: when a step that dispatches interrupts (no DMA active, CPU not
\* stopped) finds several unmasked interrupts pending, it completes, enters
\* exactly one handler, that of the pending interrupt of highest priority,
\* and leaves the other interrupts pending
C5_HighestPriorityOnly ==
    [][(result' # "None" /\ emu.cpu.mdmaen = 0 /\ ~emu.cpu.stopped /\ Cardinality(Unmasked(emu.cpu)) >= 2)
        => /\ result' # "Aborted"
           /\ emu'.gh.dispatched = <<Highest(Unmasked(emu.cpu))>>
           /\ \A j \in Unmasked(emu.cpu) \ {Highest(Unmasked(emu.cpu))} : bit(emu'.cpu.pending_interrupts, j)]_vars

\* C5 without the Abort line: the same statement for the steps that find
\* no Abort pending
C5_ExceptAbort ==
    [][(result' # "None" /\ emu.cpu.mdmaen = 0 /\ ~emu.cpu.stopped /\ Cardinality(Unmasked(emu.cpu)) >= 2 /\ INT_ABORT \notin Unmasked(emu.cpu))
        => /\ result' # "Aborted"
           /\ emu'.gh.dispatched = <<Highest(Unmasked(emu.cpu))>>
           /\ \A j \in Unmasked(emu.cpu) \ {Highest(Unmasked(emu.cpu))} : bit(emu'.cpu.pending_interrupts, j)]_vars

---------------------------------------------------------------------------
(* General-purpose DMA (SpecDma)                                           *)

\* the lowest-numbered channel enabled in MDMAEN
ActiveChannel(e) == e.dma.channels[trailing_zeros(e.cpu.mdmaen)]

\* C7: while MDMAEN is non-zero, a step transfers exactly one byte, for the
\* lowest-numbered enabled channel, and does nothing else: it fetches no
\* opcode, leaves PC where it was, enters no interrupt handler, and every
\* pending interrupt stays pending.
C7_DmaStepMovesOneByte ==
    [][(result' # "None" /\ emu.cpu.mdmaen # 0) =>
          /\ result' # "Aborted"
          /\ Len(emu'.gh.dma_bytes) = 1
          /\ emu'.gh.dma_bytes[1].channel = trailing_zeros(emu.cpu.mdmaen)
          /\ emu'.gh.opcode = -1
          /\ emu'.cpu.regs.pc = emu.cpu.regs.pc /\ emu'.cpu.regs.k = emu.cpu.regs.k
          /\ emu'.gh.dispatched = <<>>
          /\ \A j \in Interrupts : bit(emu.cpu.pending_interrupts, j) => bit(emu'.cpu.pending_interrupts, j)]_vars

\* C7 for the steps that find a non-zero byte counter and whose bus accesses
\* are answered: these are the steps the statement is right about.
C7_WhenCounterNonZero ==
    [][(result' # "None" /\ emu.cpu.mdmaen # 0 /\ ActiveChannel(emu).das # 0 /\ result' # "Aborted") =>
          /\ Len(emu'.gh.dma_bytes) = 1
          /\ emu'.gh.dma_bytes[1].channel = trailing_zeros(emu.cpu.mdmaen)
          /\ emu'.gh.opcode = -1
          /\ emu'.cpu.regs.pc = emu.cpu.regs.pc /\ emu'.cpu.regs.k = emu.cpu.regs.k
          /\ emu'.gh.dispatched = <<>>
          /\ \A j \in Interrupts : bit(emu.cpu.pending_interrupts, j) => bit(emu'.cpu.pending_interrupts, j)]_vars

\* C8: a channel in transfer mode 0, A to B, A address step +1, B address
\* base b and byte counter n >= 1 moves, at each of n steps, one byte from
\* the A address to 0x2100 + b, advances the A address by one and counts the
\* byte; the step that counts the last byte clears the channel's MDMAEN bit,
\* and a step that finds MDMAEN zero fetches an opcode.
C8_Mode0Transfer ==
    [][/\ (result' # "None" /\ emu.cpu.mdmaen # 0 /\ ActiveChannel(emu).das # 0) =>
             /\ result' # "Aborted"
             /\ emu'.gh.dma_bytes = << [channel |-> trailing_zeros(emu.cpu.mdmaen),
                                        src |-> ActiveChannel(emu).a1b * 65536 + ActiveChannel(emu).a1t,
                                        dst |-> 8448 + ActiveChannel(emu).bbad,
                                        byte |-> emu'.gh.dma_bytes[1].byte] >>
             /\ emu'.dma.channels[trailing_zeros(emu.cpu.mdmaen)].a1t = (ActiveChannel(emu).a1t + 1) % 65536
             /\ emu'.dma.channels[trailing_zeros(emu.cpu.mdmaen)].das = ActiveChannel(emu).das - 1
             /\ emu'.cpu.mdmaen = IF ActiveChannel(emu).das = 1 THEN clear_bit(emu.cpu.mdmaen, trailing_zeros(emu.cpu.mdmaen)) ELSE emu.cpu.mdmaen
       /\ (result' # "None" /\ emu.cpu.mdmaen = 0) => emu'.gh.opcode # -1]_vars

\* C8 for the steps whose bus accesses are answered
C8_WhenAnswered ==
    [][/\ (result' # "None" /\ emu.cpu.mdmaen # 0 /\ ActiveChannel(emu).das # 0 /\ result' # "Aborted") =>
             /\ Len(emu'.gh.dma_bytes) = 1
             /\ emu'.gh.dma_bytes[1].src = ActiveChannel(emu).a1b * 65536 + ActiveChannel(emu).a1t
             /\ emu'.gh.dma_bytes[1].dst = 8448 + ActiveChannel(emu).bbad
             /\ emu'.dma.channels[trailing_zeros(emu.cpu.mdmaen)].a1t = (ActiveChannel(emu).a1t + 1) % 65536
             /\ emu'.dma.channels[trailing_zeros(emu.cpu.mdmaen)].das = ActiveChannel(emu).das - 1
             /\ emu'.cpu.mdmaen = IF ActiveChannel(emu).das = 1 THEN clear_bit(emu.cpu.mdmaen, trailing_zeros(emu.cpu.mdmaen)) ELSE emu.cpu.mdmaen
       /\ (result' # "None" /\ emu.cpu.mdmaen = 0 /\ result' # "Aborted") => emu'.gh.opcode # -1]_vars

---------------------------------------------------------------------------
(* The raster (SpecTimer)                                                  *)

\* C6 as stated: at every V transition to height + 1 that finds the
\* vblank NMI enabled, RDNMI bit 7 is 1 afterwards and the NMI has been
\* raised.
C6_NmiAtEveryVBlank ==
    \A i \in DOMAIN emu.gh.vedge : emu.gh.vedge[i].enable => emu.gh.vedge[i].flag_after /\ emu.gh.vedge[i].raised

\* C6 as the code has it: a V transition to height + 1 leaves RDNMI bit 7
\* set, and it raises the NMI exactly when it finds the vblank NMI enabled
\* and RDNMI bit 7 clear; a step that finds the NMI pending, no DMA active,
\* the CPU not stopped and no Reset pending enters the NMI handler and no
\* other, whatever the I flag; and the NMI handler is entered only for a
\* transition that raised the NMI and has not been served yet.
C6_NmiAtVBlankEdge ==
    [][result' # "None" =>
          /\ \A i \in DOMAIN emu'.gh.vedge :
                /\ emu'.gh.vedge[i].flag_after
                /\ emu'.gh.vedge[i].raised <=> (emu'.gh.vedge[i].enable /\ ~emu'.gh.vedge[i].flag_before)
          /\ (bit(emu.cpu.pending_interrupts, INT_NMI) /\ emu.cpu.mdmaen = 0 /\ ~emu.cpu.stopped /\ ~bit(emu.cpu.pending_interrupts, INT_RESET))
                => (result' # "Aborted" /\ emu'.gh.dispatched = <<INT_NMI>>)
          /\ (\E i \in DOMAIN emu'.gh.dispatched : emu'.gh.dispatched[i] = INT_NMI)
                => (emu.hist.nmi_owed /\ Len(emu'.gh.dispatched) = 1 /\ ~emu'.hist.nmi_owed)]_vars

\* a step has entered the NMI handler, after the V transition to 225 that
\* found the vblank NMI enabled set RDNMI bit 7
C6_Witness == result = "Stepped" /\ emu.gh.dispatched = <<INT_NMI>> /\ emu.cpu.nmitimen_vblank_nmi_enable /\ emu.cpu.rdnmi_vblank_nmi_flag /\ emu.cpu.v_counter = 225

\* C9: a step that is not stopped by a breakpoint returns FrameFinished if
\* the counters reached (277, height) during it, in any of its timer runs,
\* and Stepped otherwise.
C9_FrameFinishedAtFramePoint ==
    result \in {"Stepped", "FrameFinished"} => (result = "FrameFinished" <=> emu.gh.frame_point)

\* C9, one direction: a step returns FrameFinished only if the counters
\* reached (277, height) during it
C9_OnlyAtFramePoint == result = "FrameFinished" => emu.gh.frame_point

\* a step has returned FrameFinished
C9_Witness == result = "FrameFinished"

---------------------------------------------------------------------------
(* run() (SpecRun)                                                         *)

\* what a step can change of the machine
Machine(e) == [cpu |-> e.cpu, dma |-> e.dma, wram |-> e.wram, ppu |-> e.ppu]

---------------------------------------------------------------------------
(* Power-on (SpecInt)                                                      *)

\* C11: the first opcode fetched after construction is fetched from bank 0
\* at the address held by the word at 00:FFFC-00:FFFD, and at that moment
\* K = 0, E = 1, M = 1, XB = 1, I = 1, D = 0 and the high byte of S is 0x01.
C11_FirstFetchAtResetVector ==
    [][(~emu.hist.fetched /\ emu'.hist.fetched) =>
          /\ emu'.gh.fetch[1].at = emu.host.vector
          /\ emu'.gh.fetch[1].regs.k = 0
          /\ emu'.gh.fetch[1].regs.p.e /\ emu'.gh.fetch[1].regs.p.m /\ emu'.gh.fetch[1].regs.p.xb
          /\ emu'.gh.fetch[1].regs.p.i /\ ~emu'.gh.fetch[1].regs.p.d
          /\ geth(emu'.gh.fetch[1].regs.s) = 1]_vars

\* the first step after construction has entered the reset handler and
\* fetched an opcode at the reset vector 0xC3A5, after the host had raised
\* other interrupt lines as well
C11_Witness ==
    /\ result = "Stepped" /\ emu.hist.fetched /\ emu.gh.dispatched = <<INT_RESET>>
    /\ emu.gh.fetch # <<>> /\ emu.gh.fetch[1].at = 50085 /\ emu.cpu.pending_interrupts # 0 /\ emu.cpu.cycles < 48

---------------------------------------------------------------------------
(* The H/V-count IRQ (SpecIrq)                                             *)

\* the dots the timer moved through during the step that led to `e`
Dots(e) == {e.gh.dots[i] : i \in DOMAIN e.gh.dots}

\* C12: with the H-match selected and HTIME = h, the timer raises the IRQ
\* in the quantum in which the H counter becomes h, once in every line, and
\* in no other quantum.
C12_HIrqOncePerLine ==
    [][(result' # "None" /\ emu.cpu.nmitimen_hv_irq = 1 /\ emu'.cpu.nmitimen_hv_irq = 1) =>
          \A r \in Dots(emu') : IF r.h = emu.cpu.htime THEN r.irq ELSE r.irq = r.irq0]_vars

\* the timer has raised the IRQ when H became HTIME = 200 in line 11, the
\* second line of the run
C12_Witness ==
    /\ emu.cpu.nmitimen_hv_irq = 1 /\ emu.cpu.htime = 200
    /\ \E r \in Dots(emu) : r.h = 200 /\ r.v = 11 /\ ~r.irq0 /\ r.irq

\* the H/V-count condition that the registers of `cpu` select, at the
\* counter values (h, v): H = HTIME, V = VTIME, or both
Selected(cpu, h, v) ==
    CASE cpu.nmitimen_hv_irq = 1 -> h = cpu.htime
      [] cpu.nmitimen_hv_irq = 2 -> v = cpu.vtime
      [] cpu.nmitimen_hv_irq = 3 -> h = cpu.htime /\ v = cpu.vtime
      [] OTHER -> FALSE

\* C13: while the selected H/V-count condition is true, the IRQ stays
\* pending: a step that finds the IRQ pending and the condition true, and
\* during which the condition stays true, leaves the IRQ pending, whether it
\* reads TIMEUP or enters the IRQ handler.
C13_IrqPendingWhileCondition ==
    [][(/\ result' # "None" /\ emu'.cpu.nmitimen_hv_irq = emu.cpu.nmitimen_hv_irq
        /\ bit(emu.cpu.pending_interrupts, INT_IRQ)
        /\ Selected(emu.cpu, emu.cpu.h_counter, emu.cpu.v_counter)
        /\ \A r \in Dots(emu') : Selected(emu.cpu, r.h, r.v))
          => bit(emu'.cpu.pending_interrupts, INT_IRQ)]_vars

\* C13 for the steps that do not dispatch the IRQ, a read of TIMEUP among
\* them
C13_ExceptDispatch ==
    [][(/\ result' # "None" /\ emu'.cpu.nmitimen_hv_irq = emu.cpu.nmitimen_hv_irq
        /\ bit(emu.cpu.pending_interrupts, INT_IRQ)
        /\ Selected(emu.cpu, emu.cpu.h_counter, emu.cpu.v_counter)
        /\ \A r \in Dots(emu') : Selected(emu.cpu, r.h, r.v)
        /\ emu'.gh.dispatched # <<INT_IRQ>>)
          => bit(emu'.cpu.pending_interrupts, INT_IRQ)]_vars

\* a step has read TIMEUP while the condition held, and the IRQ is pending
C13_TimeupReadWitness ==
    /\ result = "Stepped" /\ emu.gh.opcode = 173 /\ bit(emu.cpu.pending_interrupts, INT_IRQ)
    /\ Dots(emu) # {} /\ \A r \in Dots(emu) : Selected(emu.cpu, r.h0, r.v0) /\ Selected(emu.cpu, r.h, r.v)

\* C14: the timer raises the IRQ in the quantum in which the selected
\* condition (H = HTIME, V = VTIME, or both) becomes true, and in no other.
C14_IrqOnRisingEdge ==
    [][(result' # "None" /\ emu.cpu.nmitimen_hv_irq # 0 /\ emu'.cpu.nmitimen_hv_irq = emu.cpu.nmitimen_hv_irq) =>
          \A r \in Dots(emu') : IF Selected(emu.cpu, r.h, r.v) /\ ~Selected(emu.cpu, r.h0, r.v0) THEN r.irq ELSE r.irq = r.irq0]_vars

\* C14 with the V-match left out: the H-match and the H-and-V-match
C14_ExceptVMatch ==
    [][(result' # "None" /\ emu.cpu.nmitimen_hv_irq \in {1, 3} /\ emu'.cpu.nmitimen_hv_irq = emu.cpu.nmitimen_hv_irq) =>
          \A r \in Dots(emu') : IF Selected(emu.cpu, r.h, r.v) /\ ~Selected(emu.cpu, r.h0, r.v0) THEN r.irq ELSE r.irq = r.irq0]_vars

\* the timer has raised the IRQ for the H-and-V-match
C14_Witness ==
    /\ emu.cpu.nmitimen_hv_irq = 3
    /\ \E r \in Dots(emu) : r.h = emu.cpu.htime /\ r.v = emu.cpu.vtime /\ ~r.irq0 /\ r.irq

---------------------------------------------------------------------------
(* Mapping modes (SpecMap)                                                 *)

\* C15: the failure of an unsupported mapping mode happens at construction:
\* no machine that was constructed fails for its mapping mode later, in a
\* step.
C15_NoMappingFailureInStep == emu.gh.panic # "todo: mapping mode"

\* C15 for the supported mapping modes: every machine constructed with
\* LoROM or HiROM completes its steps
C15_SupportedModesStep == (emu.cpu.mapping_mode \in {"LoRom", "HiRom"} /\ result # "None") => result = "Stepped"

---------------------------------------------------------------------------
(* Master cycles (SpecTimer)                                               *)

\* C16: every bus access adds 6 to the master cycle counter and runs the
\* timer, so that when the access returns, and when the step returns, the
\* timer has consumed every cycle: cycles <= hv_counter_cycles < cycles + 4;
\* and no step decreases the master cycle counter.
C16_TimerConsumesCycles ==
    [][result' # "None" =>
          /\ \A i \in DOMAIN emu'.gh.bus :
                /\ emu'.gh.bus[i].c = emu'.gh.bus[i].c0 + 6
                /\ emu'.gh.bus[i].c <= emu'.gh.bus[i].hv /\ emu'.gh.bus[i].hv < emu'.gh.bus[i].c + 4
          /\ emu'.cpu.cycles <= emu'.cpu.hv_counter_cycles /\ emu'.cpu.hv_counter_cycles < emu'.cpu.cycles + 4
          /\ emu'.cpu.cycles >= emu.cpu.cycles]_vars

\* a step has executed WDM, whose second byte is skipped without a bus
\* access, and the timer stands 2 cycles ahead of the master cycle counter
C16_Witness ==
    /\ result = "Stepped" /\ emu.gh.opcode = 66 /\ Len(emu.gh.bus) = 1
    /\ emu.cpu.cycles = emu.gh.bus[1].c + 6 /\ emu.cpu.hv_counter_cycles = emu.cpu.cycles + 2

---------------------------------------------------------------------------
(* The APU mailbox (SpecApu)                                               *)

\* the mailbox accesses of the step into e
Mail(e) == {e.gh.mail[k] : k \in DOMAIN e.gh.mail}

\* C17: without a reset in between, a main-CPU read of 0x2140+i returns the
\* value the audio CPU wrote last to 0x00F4+i and an audio-CPU read of
\* 0x00F4+i the value the main CPU wrote last to 0x2140+i; a write changes
\* nothing of what the writing side reads back from any port.
C17_MailboxLastWriteWins ==
    [][\A m \in Mail(emu') :
          /\ (m.side = "cpu" /\ m.op = "read" /\ emu.hist.mail.apu[m.port + 1] # -1) => m.value = emu.hist.mail.apu[m.port + 1]
          /\ (m.side = "apu" /\ m.op = "read" /\ m.port >= 0 /\ emu.hist.mail.cpu[m.port + 1] # -1) => m.value = emu.hist.mail.cpu[m.port + 1]
          /\ (m.side = "cpu" /\ m.op = "write") => \A i \in 0..3 : Apu_cpu_read(emu', 8512 + i).v = Apu_cpu_read(emu, 8512 + i).v
          /\ (m.side = "apu" /\ m.op = "write") => \A i \in 0..3 : Apu_read(emu', 244 + i).v = Apu_read(emu, 244 + i).v]_vars

\* the audio CPU reads from port 2 the byte the main CPU wrote last, after
\* the main CPU overwrote an unread byte and the audio CPU wrote another
\* byte to the same port
C17_Witness ==
    /\ emu.gh.mail = <<[side |-> "apu", op |-> "read", port |-> 2, value |-> 165]>>
    /\ emu.hist.mail.cpu[3] = 165 /\ emu.hist.mail.apu[3] = 0
    /\ emu.apu.cpuio_in = <<0, 0, 165, 0>> /\ mem_get(emu.apu.ram, 246) = 0
    /\ emu.hist.mail.cpu[4] = 0

---------------------------------------------------------------------------
(* The VRAM and CGRAM ports (SpecPpu)                                      *)

\* the VRAM word address the PPU derives from VMADD in a translation mode
Translated(vmadd, mode) == translated_vram_word_address([Ppu_default EXCEPT !.vmadd = vmadd, !.vmain_address_translation = mode])

\* the stores to VMDATAL made under a translation mode
VramWrites == {emu.hist.ports[k] : k \in {j \in DOMAIN emu.hist.ports : emu.hist.ports[j].addr = 8472 /\ emu.hist.ports[j].mode # "None"}}

\* C18: in each translation mode no two values of VMADD translate to the
\* same word address: the word a store to VMDATAL went to is the word of no
\* other VMADD.
C18_TranslationOneToOne ==
    \A a \in VramWrites : \A vmadd \in VmaddValues : vmadd # a.vmadd => Translated(vmadd, a.mode) # a.word

\* C18 as the code has it: the translation is one-to-one on the addresses
\* below 0x2000
C18_ExceptHighBits ==
    \A a \in VramWrites : \A vmadd \in VmaddValues : (vmadd # a.vmadd /\ vmadd < 8192 /\ a.vmadd < 8192) => Translated(vmadd, a.mode) # a.word

\* a store went to VRAM word 0x2001 with VMADD = 0x2000 in mode 8, the word
\* VMADD = 0x2020 translates to
C18_Witness ==
    /\ \E a \in VramWrites : a.mode = "Bit8" /\ a.vmadd = 8192 /\ a.word = 8193
    /\ Translated(8224, "Bit8") = 8193
    /\ mem_get(emu.ppu.vram, 16386) = 255

\* the last six accesses to the ports, when there are six
Last6 == [k \in 1..6 |-> emu.hist.ports[Len(emu.hist.ports) - 6 + k]]

\* CGADD, CGDATA, CGDATA, the same CGADD, RDCGRAM, RDCGRAM
WroteThenRead ==
    /\ Len(emu.hist.ports) >= 6
    /\ Last6[1].op = "store" /\ Last6[1].addr = 8481
    /\ Last6[2].op = "store" /\ Last6[2].addr = 8482
    /\ Last6[3].op = "store" /\ Last6[3].addr = 8482
    /\ Last6[4].op = "store" /\ Last6[4].addr = 8481 /\ Last6[4].value = Last6[1].value
    /\ Last6[5].op = "load" /\ Last6[5].addr = 8507
    /\ Last6[6].op = "load" /\ Last6[6].addr = 8507

\* C19: after CGADD = i, the low and the high byte of w written to CGDATA
\* and CGADD = i again, two reads of RDCGRAM return the low byte of w and
\* the high byte of w with bit 7 cleared.
C19_CgramRoundTrip ==
    WroteThenRead => (Last6[5].value = Last6[2].value /\ Last6[6].value = Last6[3].value % 128)

\* C19 as the code has it: the two reads return the two bytes written
C19_ExceptBit7 ==
    WroteThenRead => (Last6[5].value = Last6[2].value /\ Last6[6].value = Last6[3].value)

\* the colour 0x9234 was written to the last index and read back with bit
\* 15 set
C19_Witness ==
    /\ WroteThenRead /\ Last6[1].value = 255
    /\ Last6[2].value = 52 /\ Last6[3].value = 146 /\ Last6[6].value = 146

---------------------------------------------------------------------------
(* The objects of a line (SpecObj)                                         *)

\* the objects that cover line y
Covering(ppu, y) == {i \in 0..127 : in_range(object(ppu, i), y)}

\* the number n of objects among lo .. hi - 1 that cover line y, up to 32,
\* and the number of tiles they have, added to those of acc
RECURSIVE Wanted(_, _, _, _, _)
WantedAfter(ppu, y, lo, hi, acc) == IF acc.n = 32 THEN acc ELSE Wanted(ppu, y, lo, hi, acc)

Wanted(ppu, y, lo, hi, acc) ==
    IF hi = lo + 1 THEN (IF ~in_range(object(ppu, lo), y) THEN acc
                         ELSE [n |-> acc.n + 1, tiles |-> acc.tiles + object(ppu, lo).width \div 8])
    ELSE WantedAfter(ppu, y, (lo + hi) \div 2, hi, Wanted(ppu, y, lo, (lo + hi) \div 2, acc))

\* the tiles of the first 32 objects that cover line y
TilesWanted(ppu, y) == Wanted(ppu, y, 0, 128, [n |-> 0, tiles |-> 0]).tiles

\* what the prepass p of the step from e to d is to have done
Prepassed(e, d, p) ==
    /\ Cardinality(p.kept) <= 32
    /\ d.ppu.current_object_tiles_len <= 34 /\ Len(d.ppu.current_object_tiles) = d.ppu.current_object_tiles_len
    /\ bit(d.ppu.stat77, 6) = (bit(e.ppu.stat77, 6) \/ Cardinality(Covering(e.ppu, p.y)) > 32)
    /\ bit(d.ppu.stat77, 7) = (bit(e.ppu.stat77, 7) \/ TilesWanted(e.ppu, p.y) > 34)

\* C20: the prepass of a line keeps at most 32 objects and emits at most 34
\* tiles; it sets the range-overflow flag of STAT77 when more than 32
\* objects cover the line and the tile-overflow flag when the objects kept
\* have more than 34 tiles, and sets neither flag otherwise.
C20_PrepassLimitsAndFlags ==
    [][\A k \in DOMAIN emu'.gh.prepass : Prepassed(emu, emu', emu'.gh.prepass[k])]_vars

\* C20 as the code has it: of the prepasses that return
C20_ExceptOverflow ==
    [][\A k \in DOMAIN emu'.gh.prepass : ~Panicked(emu') => Prepassed(emu, emu', emu'.gh.prepass[k])]_vars

\* the prepass of a line that 33 objects of the second name table cover
\* has ended in an arithmetic overflow, with OBSEL's base 7 and gap 3
C20_Witness ==
    /\ emu.gh.panic = "attempt to add with overflow" /\ emu.gh.prepass # <<>>
    /\ emu.ppu.obsel_base_address = 7 /\ emu.ppu.obsel_gap = 3
    /\ Cardinality(Covering(emu.ppu, emu.gh.prepass[1].y)) = 33 /\ ~bit(emu.ppu.stat77, 6)

\* a prepass has set the tile-overflow flag and no other: 5 objects of 64
\* dots cover the line
C20_TileOverflowWitness ==
    /\ emu.gh.prepass # <<>> /\ ~Panicked(emu) /\ emu.ppu.stat77 = 128 /\ emu.ppu.current_object_tiles_len = 34
    /\ Cardinality(emu.gh.prepass[1].kept) = 5

---------------------------------------------------------------------------
(* The bus resolver (SpecFn)                                               *)

\* the addresses resolved in the system area, offsets 0x2000-0x5FFF
Resolved == {emu.gh.applied[k] : k \in {j \in DOMAIN emu.gh.applied :
                 /\ emu.gh.applied[j].f = "resolve_addr" /\ bank_of(emu.gh.applied[j].addr) % 128 < 64
                 /\ emu.gh.applied[j].addr % 65536 >= 8192 /\ emu.gh.applied[j].addr % 65536 <= 24575}}

\* the device and the device address of the offset, CPU-IO being the
\* offsets `io`
MapOf(offset, io) ==
    IF offset >= 8448 /\ offset <= 8511 THEN [device |-> "Ppu", addr |-> offset]
    ELSE IF offset >= 8512 /\ offset <= 8575 THEN [device |-> "Apu", addr |-> 8512 + (offset % 4)]
    ELSE IF offset >= 8576 /\ offset <= 8579 THEN [device |-> "WRamAccess", addr |-> offset]
    ELSE IF offset >= 16406 /\ offset <= 16407 THEN [device |-> "Joypad", addr |-> offset]
    ELSE IF offset \in io THEN [device |-> "CpuIo", addr |-> offset]
    ELSE IF offset >= 17152 /\ offset <= 17279 THEN [device |-> "Dma", addr |-> offset]
    ELSE [device |-> "None", addr |-> 0]

\* C21: in the banks with (b & 0x7F) < 0x40 the resolver maps 0x2100-0x213F
\* to the PPU, 0x2140-0x217F to the four APU ports, 0x2180-0x2183 to the
\* WRAM port, 0x4016-0x4017 to the joypad, every offset of 0x4200-0x421F to
\* CPU-IO, 0x4300-0x437F to DMA and every other offset of 0x2000-0x5FFF to
\* open bus.
C21_SystemAreaMap ==
    \A r \in Resolved : r.to = MapOf(r.addr % 65536, 16896..16927)

\* C21 amended: CPU-IO is 0x4200-0x420D and 0x4210-0x421F; 0x420E and 0x420F
\* are open bus.
C21_SystemAreaMapAmended ==
    \A r \in Resolved : r.to = MapOf(r.addr % 65536, (16896..16909) \cup (16912..16927))

\* 0x420F of bank 0xBF has resolved to open bus
C21_Witness ==
    \E r \in Resolved : r.addr = 191 * 65536 + 16911 /\ r.to.device = "None"

---------------------------------------------------------------------------
(* C22: the joypad auto-read.                                              *)

\* the byte made of eight bits of a data line, the first read the most
\* significant
JoyByte(bits, first) ==
    128 * b2n(bits[first]) + 64 * b2n(bits[first + 1]) + 32 * b2n(bits[first + 2]) + 16 * b2n(bits[first + 3])
    + 8 * b2n(bits[first + 4]) + 4 * b2n(bits[first + 5]) + 2 * b2n(bits[first + 6]) + b2n(bits[first + 7])

\* what the auto-read did with a port: one strobe, then sixteen reads of
\* data1 of which the first eight are the high and the next eight the low
\* register of data1; data2, which a joypad holds low, gives zero in both of
\* its registers
AutoRead(before, after, joy1l, joy1h, joy2l, joy2h) ==
    /\ after.strobes = before.strobes + 1
    /\ Len(after.data1) = Len(before.data1) + 16
    /\ SubSeq(after.data1, 1, Len(before.data1)) = before.data1
    /\ joy1h = JoyByte(after.data1, Len(before.data1) + 1)
    /\ joy1l = JoyByte(after.data1, Len(before.data1) + 9)
    /\ joy2h = 0
    /\ joy2l = 0

---------------------------------------------------------------------------
(* C23: decimal ADC with an 8-bit accumulator.                             *)

\* the number a BCD byte encodes, and the BCD byte of a number below 100
BcdValue(byte) == 10 * (byte \div 16) + (byte % 16)

BcdByte(n) == 16 * (n \div 10) + (n % 10)

\* the step executed ADC on an 8-bit accumulator in decimal mode
AddedDecimal ==
    /\ result' = "Stepped"
    /\ emu'.gh.opcode = 105
    /\ Len(emu'.gh.applied) = 1
    /\ emu.cpu.regs.p.m
    /\ emu.cpu.regs.p.d

\* the sum of the numbers the accumulator byte and the operand encode and
\* the carry
DecimalSum == BcdValue(getl(emu.cpu.regs.a)) + BcdValue(emu'.gh.applied[1].value) + b2n(emu.cpu.regs.p.c)

\* C23: with M = 1 and D = 1, ADC of valid BCD bytes a and b with carry-in c
\* leaves A = BCD((a + b + c) mod 100) and C = (a + b + c >= 100); 0x15 +
\* 0x27 with C = 0 gives A = 0x42 with C, V, Z and N clear
C23_DecimalAdc ==
    [][ (AddedDecimal /\ getl(emu.cpu.regs.a) \in BcdBytes /\ emu'.gh.applied[1].value \in BcdBytes)
        => /\ getl(emu'.cpu.regs.a) = BcdByte(DecimalSum % 100)
           /\ emu'.cpu.regs.p.c = (DecimalSum >= 100)
           /\ (getl(emu.cpu.regs.a) = 21 /\ emu'.gh.applied[1].value = 39 /\ ~emu.cpu.regs.p.c)
                 => /\ getl(emu'.cpu.regs.a) = 66
                    /\ ~emu'.cpu.regs.p.c /\ ~emu'.cpu.regs.p.v /\ ~emu'.cpu.regs.p.z /\ ~emu'.cpu.regs.p.n ]_vars

\* 0x15 + 0x27 = 0x42, and 0x99 + 0x99 + 1 = 0x99 with carry out
C23_Witness ==
    /\ emu.gh.opcode = 105
    /\ emu.gh.applied = <<[f |-> "inst_adc", value |-> 153]>>
    /\ emu.cpu.regs.p.d /\ emu.cpu.regs.p.m
    /\ emu.cpu.regs.a = 153
    /\ emu.cpu.regs.p.c
    /\ emu.cpu.regs.p.n
    /\ result = "Stepped"

---------------------------------------------------------------------------
(* C24: the status register and its byte.                                  *)

\* the eight flags of the byte
Bits8(p) == <<p.c, p.z, p.i, p.d, p.xb, p.m, p.v, p.n>>

\* the function applied in the last step
Applied(f) == Len(emu.gh.applied) = 1 /\ emu.gh.applied[1].f = f

\* C24: loading the byte to_bits(p) gives the eight flags of p again, and
\* to_bits after loading a byte b gives b; neither touches the E flag: the
\* register loaded keeps its own, and the byte of p is the same for both
\* values of p.e
C24_FlagsRoundTrip ==
    /\ Applied("to_bits")
          => /\ Bits8(emu.gh.applied[1].to) = Bits8(emu.gh.applied[1].p)
             /\ emu.gh.applied[1].to.e = emu.gh.applied[1].q.e
             /\ emu.gh.applied[1].bits = to_bits([emu.gh.applied[1].p EXCEPT !.e = ~@])
             /\ emu.gh.applied[1].bits \in 0..255
    /\ Applied("set_from_bits")
          => /\ emu.gh.applied[1].pushed = emu.gh.applied[1].bits
             /\ emu.gh.applied[1].to.e = emu.gh.applied[1].q.e

\* the register with only Z, D and M set, pushed as 0x2A and pulled into a
\* native-mode register, which stays in native mode
C24_Witness ==
    /\ Applied("to_bits")
    /\ emu.gh.applied[1].bits = 42
    /\ emu.gh.applied[1].p.e
    /\ ~emu.gh.applied[1].to.e
    /\ emu.gh.applied[1].to.m /\ emu.gh.applied[1].to.d /\ emu.gh.applied[1].to.z /\ ~emu.gh.applied[1].to.xb /\ ~emu.gh.applied[1].to.c

---------------------------------------------------------------------------
(* C25: the PPU's counters and the timer's at the end of a frame.          *)

\* the PPU has caught up and its counters are the timer's
InStep == emu.ppu.cycles = emu.cpu.hv_counter_cycles /\ emu.ppu.hpos = emu.cpu.h_counter /\ emu.ppu.vpos = emu.cpu.v_counter

\* a step ended in one of the three assertions of the timer
AssertFailed == emu.gh.panic \in {"assert: hv_counter_cycles == ppu.cycles", "assert: h_counter == ppu.hpos", "assert: v_counter == ppu.vpos"}

\* C25: a step that reports frame-finished leaves the PPU's cycle, H and V
\* counters equal to the timer's, and none of the three assertions of the
\* timer fails, also after a Reset interrupt or a change of the overscan bit
C25_CountersAgreeAtFrameEnd == (result = "FrameFinished" => InStep) /\ ~AssertFailed

\* a step a frame after a Reset that cleared the overscan bit while the timer was in
\* line 262: the timer reached the end-of-frame dot with the PPU one line
\* ahead
C25_Witness == emu.gh.panic = "assert: v_counter == ppu.vpos" /\ result = "Aborted" /\ ~emu.ppu.setini_overscan

\* how the counters fall out of step: a Reset cleared the overscan bit with
\* the timer in line 262, and the PPU, caught up by a read of SLHV, has
\* wrapped to line 0
OutOfStep ==
    /\ emu.ppu.cycles = emu.cpu.hv_counter_cycles
    /\ emu.cpu.v_counter = 262
    /\ emu.ppu.vpos = 0
    /\ emu.ppu.hpos = emu.cpu.h_counter

---------------------------------------------------------------------------
(* C26: the audio CPU's catch-up terminates.                               *)

\* C26: every catch-up of the audio CPU returns after finitely many steps,
\* with the audio cycle counter at or beyond the main CPU's, also after
\* SLEEP or STOP has set the stopped flag
C26_CatchUpTerminates == (run_state = "catching") ~> (run_state = "idle" /\ emu.apu.cycles >= emu.cpu.cycles)

\* catch_up is in its loop with the audio CPU stopped and behind
C26_Witness == run_state = "catching" /\ emu.apu.stopped /\ emu.apu.cycles < emu.cpu.cycles

\* while the audio CPU is not stopped, a catch-up that has begun returns
C26_ExceptStopped == (run_state = "catching" /\ ~emu.apu.stopped) ~> ((run_state = "idle" /\ emu.apu.cycles >= emu.cpu.cycles) \/ emu.apu.stopped)
---------------------------------------------------------------------------
(* Waiting for an interrupt (SpecWait)                                     *)

\* C27: a step of a waiting CPU with any interrupt pending, IRQ with the I
\* flag set included, enters the handler of the interrupt it selects and
\* clears the wait state; with I set and the CPU not waiting, a pending IRQ
\* is not dispatched and stays pending.
C27_WaitEntersHandler ==
    [][result' # "None" =>
          /\ (emu.cpu.waiting /\ emu.cpu.pending_interrupts # 0) =>
                 /\ emu'.gh.dispatched = <<trailing_zeros(emu.cpu.pending_interrupts)>>
                 /\ emu'.gh.fetch # <<>>
          /\ (emu.cpu.regs.p.i /\ ~emu.cpu.waiting /\ ~emu.cpu.stopped /\ bit(emu.cpu.pending_interrupts, INT_IRQ)) =>
                 /\ INT_IRQ \notin {emu'.gh.dispatched[k] : k \in DOMAIN emu'.gh.dispatched}
                 /\ bit(emu'.cpu.pending_interrupts, INT_IRQ)]_vars

\* C27 (amended): a step of a waiting CPU with Reset, NMI or IRQ pending
\* takes the lowest of them off the pending set and leaves the wait state
\* (the step goes on to fetch an opcode); it enters the handler of that
\* interrupt unless it is an IRQ and the I flag is set, in which case no
\* handler is entered and the IRQ is no longer pending.  With I set and the
\* CPU neither waiting nor halted, a pending IRQ is not dispatched and stays
\* pending.
C27_WaitLeavesWaitState ==
    [][result' # "None" =>
          /\ (emu.cpu.waiting /\ emu.cpu.pending_interrupts # 0) =>
                 /\ emu'.gh.fetch # <<>>
                 /\ IF trailing_zeros(emu.cpu.pending_interrupts) = INT_IRQ /\ emu.cpu.regs.p.i
                    THEN emu'.gh.dispatched = <<>> /\ emu'.cpu.pending_interrupts = 0
                    ELSE emu'.gh.dispatched = <<trailing_zeros(emu.cpu.pending_interrupts)>>
          /\ (emu.cpu.regs.p.i /\ ~emu.cpu.waiting /\ ~emu.cpu.stopped /\ bit(emu.cpu.pending_interrupts, INT_IRQ)) =>
                 /\ INT_IRQ \notin {emu'.gh.dispatched[k] : k \in DOMAIN emu'.gh.dispatched}
                 /\ bit(emu'.cpu.pending_interrupts, INT_IRQ)]_vars

\* a step has found the CPU waiting with an IRQ pending and I set: it
\* entered no handler, fetched a NOP, and the IRQ is gone
C27_Witness ==
    /\ result = "Stepped" /\ emu.gh.woken /\ emu.gh.dispatched = <<>>
    /\ emu.gh.opcode = 234 /\ emu.cpu.regs.p.i /\ emu.cpu.pending_interrupts = 0

---------------------------------------------------------------------------
(* The halted CPU (SpecWait)                                               *)

\* C28: once STP has executed, a step with no DMA active returns "stepped"
\* without fetching an opcode, without changing a CPU register and without
\* advancing the master-cycle counter.
C28_HaltedStepIsIdle ==
    [][(result' # "None" /\ emu.cpu.stopped /\ emu.cpu.mdmaen = 0) =>
          /\ result' = "Stepped"
          /\ emu'.gh.fetch = <<>> /\ emu'.gh.opcode = -1 /\ emu'.gh.bus = <<>>
          /\ emu'.cpu.regs = emu.cpu.regs
          /\ emu'.cpu.cycles = emu.cpu.cycles
          /\ emu'.cpu.stopped]_vars

\* a halted CPU has been stepped with an interrupt pending: the step
\* returned "stepped" and fetched nothing
C28_Witness ==
    /\ emu.cpu.stopped /\ result = "Stepped" /\ emu.gh.opcode = -1
    /\ emu.cpu.pending_interrupts # 0

\* C29: a step with Reset pending and no DMA active enters the reset handler
\* and fetches its first opcode at the reset vector with the reset register
\* state, also when the CPU was halted by STP or waiting after WAI.
C29_ResetAtNextStep ==
    [][(result' # "None" /\ bit(emu.cpu.pending_interrupts, INT_RESET) /\ emu.cpu.mdmaen = 0) =>
          /\ emu'.gh.dispatched # <<>> /\ emu'.gh.dispatched[1] = INT_RESET
          /\ emu'.gh.fetch # <<>>
          /\ emu'.gh.fetch[1].at = emu.host.vector
          /\ emu'.gh.fetch[1].regs.p.e /\ emu'.gh.fetch[1].regs.p.i /\ ~emu'.gh.fetch[1].regs.p.d
          /\ geth(emu'.gh.fetch[1].regs.s) = 1]_vars

\* the same for a CPU that is not halted, waiting included
C29_ExceptHalted ==
    [][(result' # "None" /\ bit(emu.cpu.pending_interrupts, INT_RESET) /\ emu.cpu.mdmaen = 0 /\ ~emu.cpu.stopped) =>
          /\ emu'.gh.dispatched # <<>> /\ emu'.gh.dispatched[1] = INT_RESET
          /\ emu'.gh.fetch # <<>>
          /\ emu'.gh.fetch[1].at = emu.host.vector
          /\ emu'.gh.fetch[1].regs.p.e /\ emu'.gh.fetch[1].regs.p.i /\ ~emu'.gh.fetch[1].regs.p.d
          /\ geth(emu'.gh.fetch[1].regs.s) = 1]_vars

\* a halted CPU has been stepped with Reset pending: Reset is still pending
\* and the CPU still halted
C29_Witness ==
    /\ emu.cpu.stopped /\ result = "Stepped" /\ emu.gh.opcode = -1
    /\ bit(emu.cpu.pending_interrupts, INT_RESET) /\ emu.gh.dispatched = <<>>

---------------------------------------------------------------------------
(* The address of the high byte of a 16-bit operand (SpecFn)               *)

\* C30: the high byte of a 16-bit operand is read from low + 1 wrapped by
\* the pointer's wrap class: with bank wrap, low = bb:FFFF gives high =
\* bb:0000 for every bank bb; with page wrap, low = 00:ppFF gives high =
\* 00:pp00 for every page pp; elsewhere high = low + 1.
C30_HighByteWraps ==
    \A k \in DOMAIN emu.gh.applied :
        /\ emu.gh.applied[k].f = "Pointer::new16" =>
              /\ emu.gh.applied[k].to.low = emu.gh.applied[k].hh * 65536 + emu.gh.applied[k].mmll
              /\ emu.gh.applied[k].to.high = emu.gh.applied[k].hh * 65536 + ((emu.gh.applied[k].mmll + 1) % 65536)
        /\ emu.gh.applied[k].f = "Pointer::new8" =>
              /\ emu.gh.applied[k].to.low = emu.gh.applied[k].mmll
              /\ emu.gh.applied[k].to.high = (emu.gh.applied[k].mmll \div 256) * 256 + ((emu.gh.applied[k].mmll + 1) % 256)

\* the same for the odd banks and the odd pages
C30_ExceptEven ==
    \A k \in DOMAIN emu.gh.applied :
        /\ (emu.gh.applied[k].f = "Pointer::new16" /\ emu.gh.applied[k].hh % 2 = 1) =>
              /\ emu.gh.applied[k].to.low = emu.gh.applied[k].hh * 65536 + emu.gh.applied[k].mmll
              /\ emu.gh.applied[k].to.high = emu.gh.applied[k].hh * 65536 + ((emu.gh.applied[k].mmll + 1) % 65536)
        /\ (emu.gh.applied[k].f = "Pointer::new8" /\ (emu.gh.applied[k].mmll \div 256) % 2 = 1) =>
              /\ emu.gh.applied[k].to.low = emu.gh.applied[k].mmll
              /\ emu.gh.applied[k].to.high = (emu.gh.applied[k].mmll \div 256) * 256 + ((emu.gh.applied[k].mmll + 1) % 256)

\* the pointer of a 16-bit operand at 7E:FFFF has its high byte at 7F:0000
C30_Witness ==
    /\ emu.gh.applied # <<>> /\ emu.gh.applied[1].f = "Pointer::new16"
    /\ emu.gh.applied[1].hh = 126 /\ emu.gh.applied[1].mmll = 65535
    /\ emu.gh.applied[1].to.high = 127 * 65536

---------------------------------------------------------------------------
(* The layers of a pixel (SpecFn)                                          *)

\* whether the window mask has the bit of the layer with TM bit `layer`
InWindowOf(window, layer) ==
    and8(window, CASE layer = LAYER_BG1 -> WINDOW_BG1 [] layer = LAYER_BG2 -> WINDOW_BG2 [] layer = LAYER_BG3 -> WINDOW_BG3
                   [] layer = LAYER_BG4 -> WINDOW_BG4 [] layer = LAYER_OBJ -> WINDOW_OBJ) # 0

\* C31: on the main and on the sub screen, a layer takes part in colour
\* selection at a pixel exactly when its designation bit (TM/TS) is set and
\* not both its own window-mask result at the pixel and its own window-block
\* bit (TMW/TSW) are set.
C31_LayerMaskedByOwnWindow ==
    \A k \in DOMAIN emu.gh.applied :
        emu.gh.applied[k].f = "render_pixel" =>
            \A layer \in {LAYER_BG1, LAYER_BG2, LAYER_BG3, LAYER_BG4, LAYER_OBJ} :
                /\ bit(emu.gh.applied[k].main_layers, layer) <=>
                       (bit(emu.gh.applied[k].tm, layer) /\ ~(InWindowOf(emu.gh.applied[k].window, layer) /\ bit(emu.gh.applied[k].tmw, layer)))
                /\ bit(emu.gh.applied[k].sub_layers, layer) <=>
                       (bit(emu.gh.applied[k].ts, layer) /\ ~(InWindowOf(emu.gh.applied[k].window, layer) /\ bit(emu.gh.applied[k].tsw, layer)))

\* BG1 is designated on the main screen and blocked by TMW, the pixel lies
\* in the window of the objects only, and BG1 takes no part
C31_Witness ==
    /\ emu.gh.applied # <<>> /\ emu.gh.applied[1].f = "render_pixel"
    /\ emu.gh.applied[1].tm = 1 /\ emu.gh.applied[1].tmw = 1
    /\ emu.gh.applied[1].window = WINDOW_OBJ
    /\ emu.gh.applied[1].main_layers = 0

---------------------------------------------------------------------------
(* Entering and leaving a handler (SpecEntry)                              *)

\* the address of the k-th byte a handler entry pushes from the stack
\* pointer s: in emulation mode the low byte of S wraps in its page
PushedAt(s, k, emulation) == IF emulation THEN setl(s, (getl(s) + 256 - k) % 256) ELSE (s + 65536 - k) % 65536

\* the vector of a source in the emulation table and in the native table
VectorOf(interrupt, emulation) ==
    IF emulation
    THEN CASE interrupt = INT_COP -> 65524 [] interrupt = INT_NMI -> 65530 [] OTHER -> 65534
    ELSE CASE interrupt = INT_COP -> 65508 [] interrupt = INT_BREAK -> 65510 [] interrupt = INT_NMI -> 65514 [] OTHER -> 65518

\* an entry that found the registers `before` has left the registers
\* `after` and the work RAM `data`
Entered(before, after, data, interrupt) ==
    /\ IF before.p.e
       THEN /\ mem_get(data, PushedAt(before.s, 0, TRUE)) = geth(before.pc)
            /\ mem_get(data, PushedAt(before.s, 1, TRUE)) = getl(before.pc)
            /\ mem_get(data, PushedAt(before.s, 2, TRUE)) = to_bits(before.p)
            /\ after.s = PushedAt(before.s, 3, TRUE)
       ELSE /\ mem_get(data, PushedAt(before.s, 0, FALSE)) = before.k
            /\ mem_get(data, PushedAt(before.s, 1, FALSE)) = geth(before.pc)
            /\ mem_get(data, PushedAt(before.s, 2, FALSE)) = getl(before.pc)
            /\ mem_get(data, PushedAt(before.s, 3, FALSE)) = to_bits(before.p)
            /\ after.s = PushedAt(before.s, 4, FALSE)
    /\ after.p = [before.p EXCEPT !.i = TRUE, !.d = FALSE]
    /\ after.k = 0
    /\ after.pc = 32768 + (VectorOf(interrupt, before.p.e) % 256)

\* C32: entering a handler for NMI, IRQ, COP or BRK pushes PC-high, PC-low
\* and P in emulation mode, and K, PC-high, PC-low and P in native mode, P
\* as it was before I and D change; afterwards I = 1, D = 0, K = 0 and PC is
\* the word at the source's vector in the table of the mode.
C32_HandlerEntry ==
    [][result' # "None" =>
          /\ (emu'.gh.dispatched # <<>> /\ emu'.gh.dispatched[1] \in {INT_NMI, INT_IRQ}) =>
                 Entered(emu.cpu.regs, emu'.gh.fetch[1].regs, emu'.wram.data, emu'.gh.dispatched[1])
          /\ emu'.gh.opcode \in {0, 2} =>
                 Entered([emu'.gh.fetch[1].regs EXCEPT !.pc = (@ + 2) % 65536], emu'.cpu.regs, emu'.wram.data,
                         IF emu'.gh.opcode = 0 THEN INT_BREAK ELSE INT_COP)]_vars

\* in native mode, with D set and I clear, an IRQ has been entered through
\* the native vector 00:FFEE
C32_Witness ==
    /\ result = "Stepped" /\ emu.gh.dispatched = <<INT_IRQ>>
    /\ emu.gh.entry # <<>> /\ ~emu.gh.entry[1].p.e /\ emu.gh.entry[1].p.d /\ ~emu.gh.entry[1].p.i
    /\ emu.gh.fetch[1].at = 33006

\* in emulation mode, BRK has entered its handler through 00:FFFE
C32_BreakWitness ==
    /\ result = "Stepped" /\ emu.gh.opcode = 0 /\ emu.cpu.regs.p.e /\ emu.cpu.regs.pc = 33022

\* C33: an RTI that a handler executes with the stack it was given restores
\* P, PC, S and, in native mode, K to their values before the handler was
\* entered (the RTI is the handler's first instruction: of an NMI or IRQ
\* dispatched by the same step, or of the BRK or COP of the step before).
C33_RtiRestores ==
    [][(result' # "None" /\ emu'.gh.opcode = 64 /\ emu'.gh.entry # <<>>) =>
          /\ emu'.gh.dispatched # <<>> => emu'.gh.entry[1] = emu.cpu.regs
          /\ emu'.gh.dispatched = <<>> => emu.hist.entry = emu'.gh.entry
          /\ emu'.cpu.regs.p = emu'.gh.entry[1].p
          /\ emu'.cpu.regs.pc = emu'.gh.entry[1].pc
          /\ emu'.cpu.regs.s = emu'.gh.entry[1].s
          /\ ~emu'.gh.entry[1].p.e => emu'.cpu.regs.k = emu'.gh.entry[1].k]_vars

\* in native mode, RTI has returned from the handler of a COP or BRK that
\* found I clear
C33_Witness ==
    /\ result = "Stepped" /\ emu.gh.opcode = 64 /\ emu.gh.dispatched = <<>>
    /\ emu.gh.entry # <<>> /\ ~emu.gh.entry[1].p.e /\ ~emu.gh.entry[1].p.i
    /\ ~emu.cpu.regs.p.i /\ emu.cpu.regs.pc = emu.gh.entry[1].pc

---------------------------------------------------------------------------
(* Old and new pushes in emulation mode (SpecStack)                        *)

\* the bytes of the work RAM outside page 1 are the same in both
SameOutsidePage1(data, other) ==
    \A a \in (DOMAIN data \cup DOMAIN other) \ (256..511) : mem_get(data, a) = mem_get(other, a)

\* C34: in emulation mode the old pushes and pulls (PHP, PLP, interrupt
\* entry) access page 1 only and wrap the low byte of S, its high byte
\* staying 0x01; the new push PEA uses all 16 bits of S while it runs, so
\* that its bytes may lie outside page 1, and S.high is 0x01 again when the
\* instruction ends.
C34_OldAndNewStack ==
    [][(result' # "None" /\ emu.cpu.regs.p.e /\ emu'.gh.fetch # <<>>) =>
          /\ geth(emu'.gh.fetch[1].regs.s) = 1 /\ geth(emu'.cpu.regs.s) = 1
          /\ emu'.gh.dispatched = <<INT_NMI>> =>
                 /\ getl(emu'.gh.fetch[1].regs.s) = (getl(emu.cpu.regs.s) + 253) % 256
                 /\ emu'.gh.opcode # 244 => SameOutsidePage1(emu.wram.data, emu'.wram.data)
          /\ (emu'.gh.dispatched = <<>> /\ emu'.gh.opcode = 8) =>
                 /\ emu'.wram.data = mem_set(emu.wram.data, emu.cpu.regs.s, to_bits(emu.cpu.regs.p))
                 /\ getl(emu'.cpu.regs.s) = (getl(emu.cpu.regs.s) + 255) % 256
          /\ (emu'.gh.dispatched = <<>> /\ emu'.gh.opcode = 40) =>
                 /\ emu'.wram.data = emu.wram.data
                 /\ getl(emu'.cpu.regs.s) = (getl(emu.cpu.regs.s) + 1) % 256
                 /\ to_bits(emu'.cpu.regs.p) = or8(mem_get(emu.wram.data, emu'.cpu.regs.s), 48)
          /\ (emu'.gh.dispatched = <<>> /\ emu'.gh.opcode = 244) =>
                 /\ emu'.wram.data = mem_set(mem_set(emu.wram.data, emu.cpu.regs.s, 18), (emu.cpu.regs.s + 65535) % 65536, 207)
                 /\ emu'.cpu.regs.s = seth((emu.cpu.regs.s + 65534) % 65536, 1)]_vars

\* PEA has run with S = 0x0100: its low byte lies at 00:00FF, in page 0,
\* and S is 0x01FE
C34_Witness ==
    /\ result = "Stepped" /\ emu.gh.opcode = 244 /\ emu.gh.dispatched = <<>>
    /\ emu.cpu.regs.p.e /\ emu.gh.fetch[1].regs.s = 256
    /\ mem_get(emu.wram.data, 255) = 207 /\ mem_get(emu.wram.data, 256) = 18
    /\ emu.cpu.regs.s = 510

\* PHP has run with S = 0x0100 and PLP with S = 0x01FF: S wrapped in page 1
C34_WrapWitness ==
    /\ result = "Stepped" /\ emu.gh.dispatched = <<>> /\ emu.cpu.regs.p.e
    /\ \/ emu.gh.opcode = 8 /\ emu.gh.fetch[1].regs.s = 256 /\ emu.cpu.regs.s = 511
       \/ emu.gh.opcode = 40 /\ emu.gh.fetch[1].regs.s = 511 /\ emu.cpu.regs.s = 256

---------------------------------------------------------------------------
(* The B address of every byte of a unit (SpecUnit)                        *)

\* the offsets of a unit, by selector
UnitOffsets(selector) ==
    CASE selector = 0 -> <<0>>
      [] selector = 1 -> <<0, 1>>
      [] selector = 2 -> <<0, 0>>
      [] selector = 3 -> <<0, 0, 1, 1>>
      [] selector = 4 -> <<0, 1, 2, 3>>
      [] selector = 5 -> <<0, 1, 0, 1>>
      [] selector = 6 -> <<0, 0>>
      [] selector = 7 -> <<0, 0, 1, 1>>

\* the B address of the byte the active channel of `e` moves next: the
\* channel has moved all but `das` of its bytes
UnitAddress(e) ==
    8448 + ((ActiveChannel(e).bbad
             + UnitOffsets(ActiveChannel(e).transfer_unit_select)[
                   (((IF trailing_zeros(e.cpu.mdmaen) = 0 THEN UnitBytes0 ELSE UnitBytes1) - ActiveChannel(e).das)
                       % Len(UnitOffsets(ActiveChannel(e).transfer_unit_select))) + 1]) % 256)

\* C35: for each of the eight unit selectors, the k-th byte of a general DMA
\* goes to, or comes from, the B address 0x2100 + ((base + off_k) mod 256),
\* off_k repeating per unit as 0 / 0,1 / 0,0 / 0,0,1,1 / 0,1,2,3 / 0,1,0,1 /
\* 0,0 / 0,0,1,1, and starting again at 0 when the next channel begins.
C35_UnitPattern ==
    [][(result' # "None" /\ emu.cpu.mdmaen # 0 /\ ActiveChannel(emu).das # 0) =>
          /\ Len(emu'.gh.dma_bytes) = 1
          /\ UnitAddress(emu) = IF ActiveChannel(emu).transfer_direction = "BToA" THEN emu'.gh.dma_bytes[1].src ELSE emu'.gh.dma_bytes[1].dst]_vars

\* C35 for the bytes whose bus accesses are answered
C35_WhenAnswered ==
    [][(result' # "None" /\ emu.cpu.mdmaen # 0 /\ ActiveChannel(emu).das # 0 /\ result' # "Aborted") =>
          /\ Len(emu'.gh.dma_bytes) = 1
          /\ UnitAddress(emu) = IF ActiveChannel(emu).transfer_direction = "BToA" THEN emu'.gh.dma_bytes[1].src ELSE emu'.gh.dma_bytes[1].dst]_vars

\* the fourth byte of a unit of selector 4 has gone to 0x2183, and the
\* second byte of channel 1, which follows, to 0x2181
C35_Witness ==
    /\ result = "Stepped" /\ emu.gh.dma_bytes # <<>>
    /\ \/ emu.gh.dma_bytes[1].channel = 0 /\ emu.dma.channels[0].transfer_unit_select = 4 /\ emu.gh.dma_bytes[1].dst = 8579
       \/ emu.gh.dma_bytes[1].channel = 1 /\ emu.dma.channels[0].transfer_unit_select = 4 /\ emu.gh.dma_bytes[1].dst = 8577

---------------------------------------------------------------------------
(* The pure reads (SpecTimer)                                              *)

\* Option::None of a pure read
NoValue == -1

\* JoypadIo::read_pure (joypad.rs 20-26)
JoypadIo_read_pure(addr) ==
    CASE addr = 16406 -> 0
      [] addr = 16407 -> 31
      [] OTHER -> NoValue

\* Cpu::read_pure (cpu.rs 457-483)
Cpu_read_pure(e, addr) ==
    CASE addr = 16912 -> 2 + 128 * b2n(e.cpu.rdnmi_vblank_nmi_flag)
      [] addr = 16913 -> 128 * b2n(bit(e.cpu.pending_interrupts, INT_IRQ))
      [] addr = 16914 -> b2n(e.cpu.hvbjoy_auto_joypad_read_busy_flag) + 2 * b2n(e.cpu.hvbjoy_hblank_period_flag) + 4 * b2n(e.cpu.hvbjoy_vblank_period_flag)
      [] addr >= 16915 /\ addr <= 16919 -> e.rom.dat
      [] addr = 16920 -> e.cpu.joy1l
      [] addr = 16921 -> e.cpu.joy1h
      [] addr = 16922 -> e.cpu.joy2l
      [] addr = 16923 -> e.cpu.joy2h
      [] addr = 16924 -> e.cpu.joy3l
      [] addr = 16925 -> e.cpu.joy3h
      [] addr = 16926 -> e.cpu.joy4l
      [] addr = 16927 -> e.cpu.joy4h
      [] OTHER -> NoValue

\* Ppu::read_pure (ppu.rs 412-438): the OAM byte is read at 0x2104
Ppu_read_pure(e, addr) ==
    CASE addr = 8505 -> e.ppu.vmdatal
      [] addr = 8506 -> e.ppu.vmdatah
      [] addr = 8507 -> mem_get(e.ppu.cgram, cgram_addr(e.ppu))
      [] addr \in {8452, 8500, 8501, 8502, 8508, 8509, 8510, 8511} -> e.rom.dat
      [] OTHER -> NoValue

\* read_pure(emu, addr) (cpu.rs 655-673) for the work RAM and the registers
read_pure(e, addr) ==
    CASE resolve_addr(addr, e.cpu.mapping_mode).device = "WRam" -> mem_get(e.wram.data, resolve_addr(addr, e.cpu.mapping_mode).addr)
      [] resolve_addr(addr, e.cpu.mapping_mode).device = "Ppu" -> Ppu_read_pure(e, resolve_addr(addr, e.cpu.mapping_mode).addr)
      [] resolve_addr(addr, e.cpu.mapping_mode).device = "Joypad" -> JoypadIo_read_pure(resolve_addr(addr, e.cpu.mapping_mode).addr)
      [] resolve_addr(addr, e.cpu.mapping_mode).device = "CpuIo" -> Cpu_read_pure(e, resolve_addr(addr, e.cpu.mapping_mode).addr)
      [] OTHER -> NoValue

\* the registers both reads are compared at: OAMDATA, MPYL, SLHV's
\* neighbour OAMDATAREAD, VMDATALREAD, CGDATAREAD, STAT78, JOYA, JOYB, RDNMI,
\* TIMEUP, HVBJOY, RDIO, JOY1L, and a byte of the work RAM
PureAddrs == {8452, 8500, 8504, 8505, 8507, 8511, 16406, 16407, 16912, 16913, 16914, 16915, 16920, 511}

\* the pure read and the device read of `addr` agree in the state `e`: both
\* have a value or neither has, and the values are equal
PureAgrees(e, addr) ==
    /\ (read_pure(e, addr) = NoValue) = Panicked(read_device(e, addr, resolve_addr(addr, e.cpu.mapping_mode)))
    /\ read_pure(e, addr) # NoValue => read_pure(e, addr) = read_device(e, addr, resolve_addr(addr, e.cpu.mapping_mode)).v

\* C36: in every state and for every address the pure read yields, where it
\* yields a value, the value the ordinary bus read of that address returns in
\* that state, and both reads are defined on the same addresses.
C36_PureReadAgrees ==
    ~Panicked(emu) => \A addr \in PureAddrs : PureAgrees(emu, addr)

\* C36 except at OAMDATA, OAMDATAREAD, JOYA and HVBJOY
C36_ExceptFour ==
    ~Panicked(emu) => \A addr \in PureAddrs \ {8452, 8504, 16406, 16914} : PureAgrees(emu, addr)

\* the machine is in the vertical blanking period, with the NMI flag set
C36_Witness ==
    /\ ~Panicked(emu) /\ emu.cpu.hvbjoy_vblank_period_flag /\ emu.cpu.rdnmi_vblank_nmi_flag
    /\ result = "Stepped"

---------------------------------------------------------------------------
(* The device addresses of the cartridge and the work RAM (SpecFn)         *)

\* the bus reads of cartridge and work RAM addresses
CartReads == {emu.gh.applied[k] : k \in {j \in DOMAIN emu.gh.applied : emu.gh.applied[j].f = "read"}}

\* C37: for every address and both mapping modes the device address of the
\* resolver lies inside the device, below 0x20000 for WRAM and below 0x80000
\* for SRAM, the LoROM SRAM address (mapped address minus 0x380000) is never
\* negative, and a ROM read beyond the ROM's length returns 0 instead of
\* indexing out of range.
C37_DeviceAddressInside ==
    \A r \in CartReads :
        /\ r.to.device = "WRam" => r.to.addr >= 0 /\ r.to.addr < 131072
        /\ r.to.device = "SRam" => r.to.addr >= 0 /\ r.to.addr < 524288
        /\ r.to.device = "Rom" => ~Panicked(emu) /\ (r.index >= r.len => r.value = 0)

\* C37 for the cartridges of two bytes and more
C37_ExceptTiny ==
    \A r \in CartReads :
        /\ r.to.device = "WRam" => r.to.addr >= 0 /\ r.to.addr < 131072
        /\ r.to.device = "SRam" => r.to.addr >= 0 /\ r.to.addr < 524288
        /\ (r.to.device = "Rom" /\ r.len >= 2) => ~Panicked(emu) /\ (r.index >= r.len => r.value = 0)

\* a LoROM read of FF:7FFF has resolved to the last SRAM byte the mode
\* reaches, and a read of a 48 KiB ROM at index 0xFFFF has returned 0
C37_Witness ==
    \E r \in CartReads :
        \/ r.addr = 255 * 65536 + 32767 /\ r.to = [device |-> "SRam", addr |-> 524287]
        \/ r.len = 49152 /\ r.to.device = "Rom" /\ r.index = 65535 /\ r.value = 0

---------------------------------------------------------------------------
(* The V-blank NMI flag of RDNMI (SpecFlag)                                *)

\* the step has read the register at `offset` of bank 0
HasRead(e, offset) == \E i \in DOMAIN e.gh.bus : e.gh.bus[i].addr = offset

\* C38: the V-blank NMI flag, bit 7 of 0x4210, changes from 1 to 0 only when
\* 0x4210 is read or when the timer moves V to 2; the read of any other
\* register, of HVBJOY (0x4212) in particular, leaves it as it is.
C38_FlagClearedByRdnmiOrLine2 ==
    [][(emu.cpu.rdnmi_vblank_nmi_flag /\ ~emu'.cpu.rdnmi_vblank_nmi_flag) =>
          \/ HasRead(emu', 16912)
          \/ emu.cpu.v_counter = 1 /\ emu'.cpu.v_counter = 2]_vars

\* C38 for the steps that do not read HVBJOY
C38_ExceptHvbjoy ==
    [][(emu.cpu.rdnmi_vblank_nmi_flag /\ ~emu'.cpu.rdnmi_vblank_nmi_flag /\ ~HasRead(emu', 16914)) =>
          \/ HasRead(emu', 16912)
          \/ emu.cpu.v_counter = 1 /\ emu'.cpu.v_counter = 2]_vars

\* a step has read HVBJOY on line 100 and the flag is clear
C38_Witness ==
    /\ result = "Stepped" /\ HasRead(emu, 16914) /\ ~HasRead(emu, 16912)
    /\ emu.cpu.v_counter = 100 /\ ~emu.cpu.rdnmi_vblank_nmi_flag

\* a step has read RDNMI and the flag is clear; a step that read TIMEUP on
\* line 100 has left it set; the timer has cleared it on line 2
C38_ReadWitness ==
    /\ result = "Stepped" /\ emu.cpu.v_counter = 100 /\ HasRead(emu, 16912) /\ ~emu.cpu.rdnmi_vblank_nmi_flag

C38_TimerWitness ==
    /\ result = "Stepped" /\ emu.cpu.v_counter = 2 /\ emu.gh.opcode = 234 /\ ~emu.cpu.rdnmi_vblank_nmi_flag

---------------------------------------------------------------------------
(* Breakpoints (SpecBreak)                                                 *)

\* K:PC of the machine `e`
ProgramAddress(e) == e.cpu.regs.k * 65536 + e.cpu.regs.pc

---------------------------------------------------------------------------
(* The range of the H and V counters (SpecSync)                            *)

\* C40: in every reachable state 0 <= H <= 339 and 0 <= V <= height + 37,
\* height being the active height of the moment (224 or 239): H counts the
\* 4-cycle quanta and returns to 0 after 339 with V incremented, and V
\* returns to 0 after height + 37.
C40_CountersInRange ==
    /\ emu.cpu.h_counter >= 0 /\ emu.cpu.h_counter <= 339
    /\ emu.cpu.v_counter >= 0 /\ emu.cpu.v_counter <= output_height(emu.ppu) + 37

\* C40 with the greater of the two heights
C40_WithinOverscan ==
    /\ emu.cpu.h_counter >= 0 /\ emu.cpu.h_counter <= 339
    /\ emu.cpu.v_counter >= 0 /\ emu.cpu.v_counter <= 239 + 37

\* the timer is in line 262 of a frame with overscan
C40_Witness ==
    /\ result = "Stepped" /\ emu.ppu.setini_overscan /\ emu.cpu.v_counter = 262

\* a Reset in line 262 has switched overscan off
C40_ResetWitness ==
    /\ ~emu.ppu.setini_overscan /\ emu.cpu.v_counter = 262 /\ ~Panicked(emu)

===========================================================================
